---------------------------- MODULE Spec2Model ----------------------------
(***************************************************************************)
(* MashDB: a file-backed columnar store driven by SQL-like statements.     *)
(*                                                                         *)
(* Text is modelled as a sequence of one-character strings, JSON values as *)
(* records [t, n, s], the directory trees as a function from paths to file *)
(* records, and every statement enters through parse, as in main.cpp.      *)
(***************************************************************************)
EXTENDS Integers, Sequences, FiniteSets, TLC

(***************************************************************************)
(* Bounds of the model.                                                    *)
(***************************************************************************)
\* longest table (rows per column) the initial state draws
MaxRows == 2
\* statements one session executes
MaxStmts == 2
\* lines one console session reads
MaxLines == 3

(***************************************************************************)
(* Characters and text.                                                    *)
(***************************************************************************)
Upper == <<"A","B","C","D","E","F","G","H","I","J","K","L","M",
           "N","O","P","Q","R","S","T","U","V","W","X","Y","Z">>
Lower == <<"a","b","c","d","e","f","g","h","i","j","k","l","m",
           "n","o","p","q","r","s","t","u","v","w","x","y","z">>
Digit == <<"0","1","2","3","4","5","6","7","8","9">>

\* the characters of the model in ASCII order (Code is order-preserving)
Ascii == <<" ", "!", "\"", "$", "%", "'", "(", ")", "*", "+", ",", "-", ".">>
         \o Digit \o <<";", "<", "=", ">", "?">> \o Upper \o <<"_">> \o Lower

Range(f) == {f[i] : i \in DOMAIN f}

Code(c) == CHOOSE i \in DOMAIN Ascii : Ascii[i] = c

IsDigit(c) == c \in Range(Digit)
IsSpace(c) == c = " "
IsWordChar(c) == c \in Range(Upper) \cup Range(Lower) \cup Range(Digit) \cup {"_"}

DigitVal(c) == (CHOOSE i \in DOMAIN Digit : Digit[i] = c) - 1

tolower(c) ==
    IF c \in Range(Upper) THEN Lower[CHOOSE i \in DOMAIN Upper : Upper[i] = c] ELSE c

toLower(str) == [i \in DOMAIN str |-> tolower(str[i])]

Drop(str, k) == SubSeq(str, k + 1, Len(str))
Take(str, k) == SubSeq(str, 1, k)

IsPrefix(p, str) == Len(p) <= Len(str) /\ Take(str, Len(p)) = p

RECURSIVE LeadingSpaces(_)
LeadingSpaces(str) ==
    IF str # <<>> /\ IsSpace(Head(str)) THEN 1 + LeadingSpaces(Tail(str)) ELSE 0

RECURSIVE TrailingSpaces(_)
TrailingSpaces(str) ==
    IF str # <<>> /\ IsSpace(str[Len(str)])
    THEN 1 + TrailingSpaces(Take(str, Len(str) - 1)) ELSE 0

\* ConditionParser::trim, and the erase/find_first_not_of idiom of parser.cpp
trim(str) ==
    LET a == LeadingSpaces(str)
    IN  IF a = Len(str) THEN <<>>
        ELSE SubSeq(str, a + 1, Len(str) - TrailingSpaces(str))

RECURSIVE LexLess(_, _)
\* std::string operator< : byte-wise lexicographic order
LexLess(x, y) ==
    IF y = <<>> THEN FALSE
    ELSE IF x = <<>> THEN TRUE
    ELSE IF Head(x) # Head(y) THEN Code(Head(x)) < Code(Head(y))
    ELSE LexLess(Tail(x), Tail(y))

RECURSIVE DigitsOf(_)
DigitsOf(n) == IF n < 10 THEN <<Digit[n + 1]>> ELSE DigitsOf(n \div 10) \o <<Digit[(n % 10) + 1]>>

\* std::to_string(int64_t)
to_string(n) == IF n < 0 THEN <<"-">> \o DigitsOf(0 - n) ELSE DigitsOf(n)

RECURSIVE DigitRun(_)
\* length of the longest prefix of digits
DigitRun(str) == IF str # <<>> /\ IsDigit(Head(str)) THEN 1 + DigitRun(Tail(str)) ELSE 0

RECURSIVE WordRun(_)
WordRun(str) == IF str # <<>> /\ IsWordChar(Head(str)) THEN 1 + WordRun(Tail(str)) ELSE 0

RECURSIVE NatOf(_)
NatOf(ds) == IF ds = <<>> THEN 0 ELSE NatOf(Take(ds, Len(ds) - 1)) * 10 + DigitVal(ds[Len(ds)])

AllDigits(str) == str # <<>> /\ DigitRun(str) = Len(str)

Contains(str, c) == \E i \in DOMAIN str : str[i] = c

RECURSIVE StripLeadingZeros(_)
StripLeadingZeros(ds) ==
    IF Len(ds) > 1 /\ Head(ds) = "0" THEN StripLeadingZeros(Tail(ds)) ELSE ds

\* the digit string exceeds the limit
DigitsExceed(ds, limit) ==
    LET d == StripLeadingZeros(ds)
    IN  Len(d) > Len(limit) \/ (Len(d) = Len(limit) /\ LexLess(limit, d))


(***************************************************************************)
(* JSON values (nlohmann::json): the tag t, the number n, the text s.      *)
(***************************************************************************)
JNull == [t |-> "null", n |-> 0, f |-> 0, s |-> <<>>]
JInt(i) == [t |-> "int", n |-> i, f |-> 0, s |-> <<>>]
\* a float is n / 10^f
JFloat(m, k) == [t |-> "float", n |-> m, f |-> k, s |-> <<>>]
JStr(str) == [t |-> "str", n |-> 0, f |-> 0, s |-> str]
JBool(b) == [t |-> "bool", n |-> IF b THEN 1 ELSE 0, f |-> 0, s |-> <<>>]

is_null(v) == v.t = "null"
is_string(v) == v.t = "str"
is_boolean(v) == v.t = "bool"
is_number_integer(v) == v.t = "int"
is_number_float(v) == v.t = "float"
is_number(v) == v.t \in {"int", "float"}

RECURSIVE Pow10(_)
Pow10(k) == IF k = 0 THEN 1 ELSE 10 * Pow10(k - 1)

\* nlohmann operator==: numbers compare by value across integer and float
JsonEq(x, y) ==
    IF is_number(x) /\ is_number(y) THEN x.n * Pow10(y.f) = y.n * Pow10(x.f)
    ELSE x.t = y.t /\ x.n = y.n /\ x.s = y.s

\* nlohmann operator<: by value within a type, else by the order of the types
TypeOrder(v) ==
    CASE v.t = "null" -> 0 [] v.t = "bool" -> 1 [] v.t \in {"int", "float"} -> 2 [] OTHER -> 5

RECURSIVE StripZeros(_)
StripZeros(str) ==
    IF str # <<>> /\ str[Len(str)] = "0" THEN StripZeros(Take(str, Len(str) - 1)) ELSE str

RECURSIVE PadLeft(_, _)
PadLeft(str, k) == IF Len(str) >= k THEN str ELSE PadLeft(<<"0">> \o str, k)

\* std::to_string(double), trailing zeros and a trailing '.' erased
FloatText(v) ==
    LET neg == v.n < 0
        m == IF neg THEN 0 - v.n ELSE v.n
        body == DigitsOf(m \div Pow10(v.f)) \o <<".">> \o PadLeft(DigitsOf(m % Pow10(v.f)), v.f)
        cut == StripZeros(body)
        txt == IF cut[Len(cut)] = "." THEN Take(cut, Len(cut) - 1) ELSE cut
    IN  IF neg THEN <<"-">> \o txt ELSE txt

\* the canonical text evaluateCondition compares
fieldValueOf(value) ==
    CASE value.t = "str" -> value.s
      [] value.t = "int" -> to_string(value.n)
      [] value.t = "float" -> FloatText(value)
      [] value.t = "bool" -> IF value.n = 1 THEN <<"t","r","u","e">> ELSE <<"f","a","l","s","e">>
      [] OTHER -> <<"N","U","L","L">>

(***************************************************************************)
(* std::stoll and std::stod: leading whitespace, a sign, then the longest  *)
(* numeric prefix; no conversion (ok = FALSE) stands for the exception.    *)
(***************************************************************************)
SkipSpaces(str) == Drop(str, LeadingSpaces(str))
Negative(a) == a # <<>> /\ Head(a) = "-"
Unsigned(a) == IF a # <<>> /\ Head(a) \in {"-", "+"} THEN Tail(a) ELSE a

\* the digits of LLONG_MAX and of -LLONG_MIN
Int64MaxDigits == <<"9","2","2","3","3","7","2","0","3","6","8","5","4","7","7","5","8","0","7">>
Int64MinDigits == <<"9","2","2","3","3","7","2","0","3","6","8","5","4","7","7","5","8","0","8">>

\* b is the text behind the sign, k the length of its run of digits; a value
\* outside the 64-bit range is std::out_of_range
StollDigits(neg, b, k) ==
    IF k = 0 \/ DigitsExceed(Take(b, k), IF neg THEN Int64MinDigits ELSE Int64MaxDigits)
    THEN [ok |-> FALSE, val |-> 0]
    ELSE [ok |-> TRUE, val |-> IF neg THEN 0 - NatOf(Take(b, k)) ELSE NatOf(Take(b, k))]

StollSigned(a) == StollDigits(Negative(a), Unsigned(a), DigitRun(Unsigned(a)))

stoll(str) == StollSigned(SkipSpaces(str))

\* the value is num / 10^frac: k digits before the point, f digits behind it
StodValue(neg, m, k, f) == [ok |-> k + f > 0, num |-> IF neg THEN 0 - m ELSE m, frac |-> f]

StodFraction(neg, b, k, c, f) ==
    StodValue(neg, NatOf(Take(b, k) \o (IF f > 0 THEN SubSeq(c, 2, f + 1) ELSE <<>>)), k, f)

StodDigits(neg, b, k, c) ==
    StodFraction(neg, b, k, c, IF c # <<>> /\ Head(c) = "." THEN DigitRun(Tail(c)) ELSE 0)

StodUnsigned(neg, b, k) == StodDigits(neg, b, k, Drop(b, k))

StodSigned(a) == StodUnsigned(Negative(a), Unsigned(a), DigitRun(Unsigned(a)))

stod(str) == StodSigned(SkipSpaces(str))

DecLess(x, y) == x.num * Pow10(y.frac) < y.num * Pow10(x.frac)

(***************************************************************************)
(* The comparison helpers of ConditionParser.                              *)
(***************************************************************************)
compareEqual(fieldValue, conditionValue) ==
    IF toLower(conditionValue) = <<"n","u","l","l">>
    THEN fieldValue = <<"N","U","L","L">> \/ fieldValue = <<>>
    ELSE trim(fieldValue) = trim(conditionValue)

compareNotEqual(fieldValue, conditionValue) == ~compareEqual(fieldValue, conditionValue)

\* the try block of compareGreaterThan on the converted operands; a failed
\* conversion throws into the catch block, which compares the texts
GreaterAsDouble(fieldValue, conditionValue, fieldNum, condNum) ==
    IF fieldNum.ok /\ condNum.ok THEN DecLess(condNum, fieldNum)
    ELSE LexLess(conditionValue, fieldValue)

GreaterAsInteger(fieldValue, conditionValue, fieldNum, condNum) ==
    IF fieldNum.ok /\ condNum.ok THEN fieldNum.val > condNum.val
    ELSE LexLess(conditionValue, fieldValue)

compareGreaterThan(fieldValue, conditionValue) ==
    IF Contains(fieldValue, ".") \/ Contains(conditionValue, ".")
    THEN GreaterAsDouble(fieldValue, conditionValue, stod(fieldValue), stod(conditionValue))
    ELSE GreaterAsInteger(fieldValue, conditionValue, stoll(fieldValue), stoll(conditionValue))

\* the try block of compareLessThan on the converted operands
LessAsDouble(fieldValue, conditionValue, fieldNum, condNum) ==
    IF fieldNum.ok /\ condNum.ok THEN DecLess(fieldNum, condNum)
    ELSE LexLess(fieldValue, conditionValue)

LessAsInteger(fieldValue, conditionValue, fieldNum, condNum) ==
    IF fieldNum.ok /\ condNum.ok THEN fieldNum.val < condNum.val
    ELSE LexLess(fieldValue, conditionValue)

compareLessThan(fieldValue, conditionValue) ==
    IF Contains(fieldValue, ".") \/ Contains(conditionValue, ".")
    THEN LessAsDouble(fieldValue, conditionValue, stod(fieldValue), stod(conditionValue))
    ELSE LessAsInteger(fieldValue, conditionValue, stoll(fieldValue), stoll(conditionValue))

compareGreaterEqual(fieldValue, conditionValue) ==
    compareEqual(fieldValue, conditionValue) \/ compareGreaterThan(fieldValue, conditionValue)

compareLessEqual(fieldValue, conditionValue) ==
    compareEqual(fieldValue, conditionValue) \/ compareLessThan(fieldValue, conditionValue)

(***************************************************************************)
(* compareLike: the pattern becomes a regular expression, here a sequence  *)
(* of atoms [any, c, star]; '%' is ".*", '_' is ".", the listed            *)
(* metacharacters are escaped, and every other character is copied as it   *)
(* is, so an unescaped '*' is the regex quantifier of the atom before it.  *)
(***************************************************************************)
LikeEscaped == {".", "^", "$", "|", "(", ")", "[", "]", "{", "}", "\\", "+", "?"}

RECURSIVE LikeAtoms(_, _)
\* the atoms of the pattern, or <<"error">> first for a std::regex_error
LikeAtoms(pattern, acc) ==
    IF pattern = <<>> THEN acc
    ELSE LET c == Head(pattern) IN
         IF c = "%" THEN LikeAtoms(Tail(pattern), Append(acc, [any |-> TRUE, c |-> "", star |-> TRUE]))
         ELSE IF c = "_" THEN LikeAtoms(Tail(pattern), Append(acc, [any |-> TRUE, c |-> "", star |-> FALSE]))
         ELSE IF c \in LikeEscaped
         THEN LikeAtoms(Tail(pattern), Append(acc, [any |-> FALSE, c |-> c, star |-> FALSE]))
         ELSE IF c = "*"
         THEN IF acc = <<>> THEN <<[any |-> FALSE, c |-> "error", star |-> FALSE]>>
              ELSE LikeAtoms(Tail(pattern),
                             [acc EXCEPT ![Len(acc)] = [@ EXCEPT !.star = TRUE]])
         ELSE LikeAtoms(Tail(pattern), Append(acc, [any |-> FALSE, c |-> tolower(c), star |-> FALSE]))

AtomHits(atom, ch) == atom.any \/ atom.c = tolower(ch)

RECURSIVE AtomsMatch(_, _)
\* std::regex_match: the whole text against the whole expression
AtomsMatch(atoms, str) ==
    IF atoms = <<>> THEN str = <<>>
    ELSE LET a == Head(atoms) IN
         IF a.star
         THEN AtomsMatch(Tail(atoms), str)
              \/ (str # <<>> /\ AtomHits(a, Head(str)) /\ AtomsMatch(atoms, Tail(str)))
         ELSE str # <<>> /\ AtomHits(a, Head(str)) /\ AtomsMatch(Tail(atoms), Tail(str))

LikeMatches(fieldValue, atoms) ==
    IF atoms # <<>> /\ atoms[1].c = "error" THEN FALSE
    ELSE AtomsMatch(atoms, fieldValue)

compareLike(fieldValue, pattern) == LikeMatches(fieldValue, LikeAtoms(pattern, <<>>))

(***************************************************************************)
(* ConditionParser::parseCondition.  The regular expression                *)
(*   ^\s*(\w+)\s*(={1,2}|!=|>|<|>=|<=|\s+LIKE\s+)\s*(VALUE)\s*$            *)
(* is matched by hand: the column is the longest run of word characters,   *)
(* the operator is the first alternative after which the rest is a value.  *)
(***************************************************************************)
NoQuote(str, q) == \A i \in DOMAIN str : str[i] # q

\* '[^']*' | "[^"]*" | \d+(?:\.\d+)? | \w+
IsValueText(v) ==
    \/ Len(v) >= 2 /\ v[1] = "'" /\ v[Len(v)] = "'" /\ NoQuote(SubSeq(v, 2, Len(v) - 1), "'")
    \/ Len(v) >= 2 /\ v[1] = "\"" /\ v[Len(v)] = "\"" /\ NoQuote(SubSeq(v, 2, Len(v) - 1), "\"")
    \/ LET k == DigitRun(v) IN
         /\ k > 0
         /\ \/ k = Len(v)
            \/ /\ Len(v) > k + 1
               /\ v[k + 1] = "."
               /\ DigitRun(Drop(v, k + 1)) = Len(v) - k - 1
    \/ v # <<>> /\ WordRun(v) = Len(v)

\* the symbolic alternatives, in the order the expression tries them
SymbolOps == << <<"=","=">>, <<"=">>, <<"!","=">>, <<">">>, <<"<">>, <<">","=">>, <<"<","=">> >>

likeWord == <<"l","i","k","e">>

NoCondition == [ok |-> FALSE, column |-> <<>>, op |-> <<>>, value |-> <<>>]

\* the least element of a set of positions, 0 for the empty set
Least(S) == IF S = {} THEN 0 ELSE CHOOSE k \in S : \A j \in S : k <= j

\* s0 is the text from the column on, w the length of the column, r1 the text
\* from the operator on, i the first symbolic alternative that lets the rest
\* be a value (0 for none), likeHit the same for the alternative \s+LIKE\s+
ConditionMatch(condition, s0, w, r1, i, likeHit) ==
    IF condition = <<>> \/ w = 0 THEN NoCondition
    ELSE IF i > 0
    THEN [ok |-> TRUE, column |-> Take(s0, w),
          op |-> toLower(trim(SymbolOps[i])),
          value |-> trim(Drop(r1, Len(SymbolOps[i])))]
    ELSE IF likeHit
    THEN [ok |-> TRUE, column |-> Take(s0, w),
          op |-> toLower(trim(Take(r1, 4))),
          value |-> trim(Drop(r1, 4))]
    ELSE NoCondition

ConditionOperator(condition, s0, w, ns, r1) ==
    ConditionMatch(condition, s0, w, r1,
                   Least({i \in DOMAIN SymbolOps :
                            IsPrefix(SymbolOps[i], r1)
                            /\ IsValueText(trim(Drop(r1, Len(SymbolOps[i]))))}),
                   /\ ns >= 1
                   /\ Len(r1) > 4
                   /\ toLower(Take(r1, 4)) = likeWord
                   /\ IsSpace(r1[5])
                   /\ IsValueText(trim(Drop(r1, 4))))

ConditionSpaces(condition, s0, w, ns) ==
    ConditionOperator(condition, s0, w, ns, Drop(s0, w + ns))

ConditionColumn(condition, s0, w) ==
    ConditionSpaces(condition, s0, w, LeadingSpaces(Drop(s0, w)))

ConditionStart(condition, s0) == ConditionColumn(condition, s0, WordRun(s0))

parseCondition(condition) == ConditionStart(condition, SkipSpaces(condition))

(***************************************************************************)
(* ConditionParser::evaluateCondition.  threw = TRUE is the                *)
(* "Unsupported operator" exception.                                       *)
(***************************************************************************)
stripQuotes(condValue) ==
    IF /\ Len(condValue) >= 2
       /\ \/ condValue[1] = "'" /\ condValue[Len(condValue)] = "'"
          \/ condValue[1] = "\"" /\ condValue[Len(condValue)] = "\""
    THEN SubSeq(condValue, 2, Len(condValue) - 1)
    ELSE condValue

\* the if chain of evaluateCondition over the operator
ApplyOperator(fieldValue, op, condValue) ==
    CASE op = <<"=">> -> [threw |-> FALSE, res |-> compareEqual(fieldValue, condValue)]
      [] op = <<"!","=">> -> [threw |-> FALSE, res |-> compareNotEqual(fieldValue, condValue)]
      [] op = <<">">> -> [threw |-> FALSE, res |-> compareGreaterThan(fieldValue, condValue)]
      [] op = <<"<">> -> [threw |-> FALSE, res |-> compareLessThan(fieldValue, condValue)]
      [] op = <<">","=">> -> [threw |-> FALSE, res |-> compareGreaterEqual(fieldValue, condValue)]
      [] op = <<"<","=">> -> [threw |-> FALSE, res |-> compareLessEqual(fieldValue, condValue)]
      [] op = likeWord -> [threw |-> FALSE, res |-> compareLike(fieldValue, condValue)]
      [] OTHER -> [threw |-> TRUE, res |-> FALSE]

evaluateCondition(value, condition) ==
    ApplyOperator(fieldValueOf(value), toLower(condition.op), stripQuotes(condition.value))

JsonLess(x, y) ==
    IF is_number(x) /\ is_number(y) THEN x.n * Pow10(y.f) < y.n * Pow10(x.f)
    ELSE IF x.t = y.t
    THEN CASE x.t = "str" -> LexLess(x.s, y.s)
           [] x.t = "bool" -> x.n < y.n
           [] OTHER -> FALSE
    ELSE TypeOrder(x) < TypeOrder(y)

(***************************************************************************)
(* The directory trees.  Insert, Delete and CREATE TABLE build their paths *)
(* from $HOME/.mashdb/databases, Select and Update from                    *)
(* <cwd>/Databases: two roots.  A path is <<root, column, kind>>: the      *)
(* column file Columns/<col>.json ("final") or its sibling                 *)
(* Columns/<col>.json.tmp ("tmp").  Insert's temporary path,               *)
(* Columns/<col>.json/.tmp ("child"), lies below a regular file: it names  *)
(* no file that can exist, so it is no path of the tree.                   *)
(***************************************************************************)
HomeRoot == "home"
CwdRoot == "cwd"
Roots == {HomeRoot, CwdRoot}

ColA == <<"a">>
ColB == <<"b">>
ColC == <<"c">>

\* the table's Table-info.json, in the key order nlohmann::json iterates
TableInfo ==
    << [name |-> ColA, type |-> <<"T","E","X","T">>, isUnique |-> TRUE, notNull |-> FALSE],
       [name |-> ColB, type |-> <<"I","N","T">>, isUnique |-> FALSE, notNull |-> TRUE] >>

SchemaColumns(info) == [i \in DOMAIN info |-> info[i].name]
InfoContains(info, col) == \E i \in DOMAIN info : info[i].name = col
InfoOf(info, col) == info[CHOOSE i \in DOMAIN info : info[i].name = col]

Kinds == {"final", "tmp"}
Paths == Roots \X Range(SchemaColumns(TableInfo)) \X Kinds

Absent == [exists |-> FALSE, data |-> <<>>]
FileOf(data) == [exists |-> TRUE, data |-> data]

FinalPath(root, col) == <<root, col, "final">>
\* a faulty variant of SiblingTempPath: the new array is written over the column file
SiblingTempPath_final(root, col) == FinalPath(root, col)

\* deleteRow.cpp:160 and updateRow.cpp:163: finalPath.string() + ".tmp"
SiblingTempPath(root, col) == <<root, col, "tmp">>
\* insert.cpp:165: finalPath / ".tmp"
ChildTempPath(root, col) == <<root, col, "child">>

\* fs::exists
Exists(fs, path) == path \in DOMAIN fs /\ fs[path].exists

\* ofstream(path, ios::trunc) << data: the open fails, and the write is lost,
\* when the path is not one the tree can hold
CanOpen(fs, path) == path \in DOMAIN fs
WriteFile(fs, path, data) ==
    IF CanOpen(fs, path) THEN [fs EXCEPT ![path] = FileOf(data)] ELSE fs

\* fs::rename(from, to), defined when from exists
Rename(fs, from, to) == [fs EXCEPT ![to] = fs[from], ![from] = Absent]

\* fs::remove
Remove(fs, path) == IF path \in DOMAIN fs THEN [fs EXCEPT ![path] = Absent] ELSE fs

RECURSIVE RemoveStaged(_, _)
\* the catch blocks: every staged temporary file that exists is removed
RemoveStaged(fs, staged) ==
    IF staged = <<>> THEN fs
    ELSE RemoveStaged(IF Exists(fs, Head(staged)[1]) THEN Remove(fs, Head(staged)[1]) ELSE fs,
                      Tail(staged))

(***************************************************************************)
(* Statements.  A statement is a sequence of tokens, each token a text;    *)
(* the white space between tokens is the \s+ / \s* of the regular          *)
(* expressions of ParseQuery::parse, which are matched token by token.     *)
(***************************************************************************)
kSELECT == <<"S","E","L","E","C","T">>
kFROM == <<"F","R","O","M">>
kWHERE == <<"W","H","E","R","E">>
kORDER == <<"O","R","D","E","R">>
kBY == <<"B","Y">>
kASC == <<"A","S","C">>
kDESC == <<"D","E","S","C">>
kLIMIT == <<"L","I","M","I","T">>
kOFFSET == <<"O","F","F","S","E","T">>
kINSERT == <<"I","N","S","E","R","T">>
kINTO == <<"I","N","T","O">>
kVALUES == <<"V","A","L","U","E","S">>
kDELETE == <<"D","E","L","E","T","E">>
kUPDATE == <<"U","P","D","A","T","E">>
kSET == <<"S","E","T">>
tSemi == <<";">>
tComma == <<",">>
tOpen == <<"(">>
tClose == <<")">>
tStar == <<"*">>

\* regex_constants::icase
IsKw(tok, kw) == toLower(tok) = toLower(kw)

IsLetter(c) == c \in Range(Upper) \cup Range(Lower)

\* [a-zA-Z_][a-zA-Z0-9_]*, with '$' too where the expression allows it
IsIdent(tok, dollar) ==
    /\ tok # <<>>
    /\ IsLetter(tok[1]) \/ tok[1] = "_"
    /\ \A i \in 2..Len(tok) : IsWordChar(tok[i]) \/ (dollar /\ tok[i] = "$")

At(q, i) == IF i \in DOMAIN q THEN q[i] ELSE <<>>

RECURSIVE Join(_)
\* the text of a run of tokens, one blank between two tokens
Join(toks) ==
    IF toks = <<>> THEN <<>>
    ELSE IF Len(toks) = 1 THEN toks[1]
    ELSE toks[1] \o <<" ">> \o Join(Tail(toks))

RECURSIVE SplitComma(_, _)
\* getline(ss, item, ','), each item trimmed, empty items skipped
SplitComma(toks, cur) ==
    IF toks = <<>> THEN (IF trim(Join(cur)) = <<>> THEN <<>> ELSE <<trim(Join(cur))>>)
    ELSE IF Head(toks) = tComma
    THEN (IF trim(Join(cur)) = <<>> THEN <<>> ELSE <<trim(Join(cur))>>) \o SplitComma(Tail(toks), <<>>)
    ELSE SplitComma(Tail(toks), Append(cur, Head(toks)))

(***************************************************************************)
(* Literal classification of INSERT and UPDATE (parser.cpp:137-161 and     *)
(* 457-477).  stoi is 32-bit: ok = FALSE is std::out_of_range.             *)
(***************************************************************************)
IntMaxDigits == <<"2","1","4","7","4","8","3","6","4","7">>
IntMinDigits == <<"2","1","4","7","4","8","3","6","4","8">>

\* ^-?\d+$
IsIntText(val) ==
    IF val # <<>> /\ Head(val) = "-" THEN AllDigits(Tail(val)) ELSE AllDigits(val)

\* ^-?\d+\.\d+$
IsFloatText(val) ==
    LET b == IF val # <<>> /\ Head(val) = "-" THEN Tail(val) ELSE val
        k == DigitRun(b)
    IN  /\ k > 0
        /\ Len(b) > k + 1
        /\ b[k + 1] = "."
        /\ DigitRun(Drop(b, k + 1)) = Len(b) - k - 1

stoi(val) ==
    LET neg == Head(val) = "-"
        ds == IF neg THEN Tail(val) ELSE val
    IN  IF DigitsExceed(ds, IF neg THEN IntMinDigits ELSE IntMaxDigits)
        THEN [ok |-> FALSE, val |-> 0]
        ELSE [ok |-> TRUE, val |-> stoll(val).val]

IsQuoted(val) ==
    \/ val[1] = "'" /\ val[Len(val)] = "'"
    \/ val[1] = "\"" /\ val[Len(val)] = "\""

\* val is not empty
ClassifyLiteral(val) ==
    IF val \in {<<"N","U","L","L">>, <<"n","u","l","l">>} THEN [ok |-> TRUE, v |-> JNull]
    ELSE IF val \in {<<"t","r","u","e">>, <<"T","R","U","E">>} THEN [ok |-> TRUE, v |-> JBool(TRUE)]
    ELSE IF val \in {<<"f","a","l","s","e">>, <<"F","A","L","S","E">>} THEN [ok |-> TRUE, v |-> JBool(FALSE)]
    ELSE IF IsQuoted(val) THEN [ok |-> TRUE, v |-> JStr(SubSeq(val, 2, Len(val) - 1))]
    ELSE IF IsIntText(val) THEN [ok |-> stoi(val).ok, v |-> JInt(stoi(val).val)]
    ELSE IF IsFloatText(val) THEN [ok |-> TRUE, v |-> JFloat(stod(val).num, stod(val).frac)]
    ELSE [ok |-> TRUE, v |-> JStr(val)]

(***************************************************************************)
(* The statement expressions of ParseQuery::parse.                         *)
(***************************************************************************)
\* the first position >= from holding a token that satisfies Hit, or 0
FirstPos(q, from, Hit(_)) ==
    IF \E i \in from..Len(q) : Hit(q[i])
    THEN CHOOSE i \in from..Len(q) : Hit(q[i]) /\ \A j \in from..(i - 1) : ~Hit(q[j])
    ELSE 0

IsClose(tok) == tok = tClose

\* c1 and c2 are the positions of the first and the second ')'
InsertFields(q, c1, c2, ok) ==
    [ok |-> ok,
     table |-> At(q, 3),
     columns |-> IF ok THEN SubSeq(q, 5, c1 - 1) ELSE <<>>,
     values |-> IF ok THEN SubSeq(q, c1 + 3, c2 - 1) ELSE <<>>]

InsertLists(q, c1, c2) ==
    InsertFields(q, c1, c2,
                 /\ IsKw(At(q, 1), kINSERT)
                 /\ IsKw(At(q, 2), kINTO)
                 /\ IsIdent(At(q, 3), TRUE)
                 /\ At(q, 4) = tOpen
                 /\ c1 > 5
                 /\ IsKw(At(q, c1 + 1), kVALUES)
                 /\ At(q, c1 + 2) = tOpen
                 /\ c2 > c1 + 3
                 /\ c2 = Len(q) - 1
                 /\ q[Len(q)] = tSemi)

InsertColumns(q, c1) == InsertLists(q, c1, FirstPos(q, c1 + 1, IsClose))

\* insertRegex: INSERT INTO name ( [^)]+ ) VALUES ( [^)]+ ) ;
MatchInsert(q) == InsertColumns(q, FirstPos(q, 5, IsClose))

\* \*|ident(,ident)*
IsColumnList(toks) ==
    \/ toks = <<tStar>>
    \/ /\ Len(toks) % 2 = 1
       /\ \A i \in DOMAIN toks :
            IF i % 2 = 1 THEN IsIdent(toks[i], FALSE) ELSE toks[i] = tComma

NoTail == [ok |-> FALSE, orderBy |-> <<>>, order |-> <<>>,
           hasLimit |-> FALSE, limit |-> <<>>, hasOffset |-> FALSE, offset |-> <<>>]

\* the tail [ORDER BY col [ASC|DESC]] [LIMIT n [OFFSET m]] [;] ends the
\* statement: p1..p4 are the positions after the ORDER BY column, the
\* direction, the LIMIT count and the OFFSET count
TailRecord(toks, hasOrder, hasDir, hasLimit, hasOffset, p1, p2, p3, p4) ==
    IF (IF At(toks, p4) = tSemi THEN p4 + 1 ELSE p4) = Len(toks) + 1
    THEN [ok |-> TRUE,
          orderBy |-> IF hasOrder THEN toks[3] ELSE <<>>,
          order |-> IF hasDir THEN toks[p1] ELSE <<>>,
          hasLimit |-> hasLimit, limit |-> IF hasLimit THEN toks[p2 + 1] ELSE <<>>,
          hasOffset |-> hasOffset, offset |-> IF hasOffset THEN toks[p3 + 1] ELSE <<>>]
    ELSE NoTail

TailOffset(toks, hasOrder, hasDir, hasLimit, hasOffset, p1, p2, p3) ==
    TailRecord(toks, hasOrder, hasDir, hasLimit, hasOffset, p1, p2, p3,
               IF hasOffset THEN p3 + 2 ELSE p3)

TailLimit(toks, hasOrder, hasDir, hasLimit, p1, p2, p3) ==
    TailOffset(toks, hasOrder, hasDir, hasLimit,
               hasLimit /\ IsKw(At(toks, p3), kOFFSET) /\ AllDigits(At(toks, p3 + 1)),
               p1, p2, p3)

TailDir(toks, hasOrder, hasDir, p1, p2) ==
    TailLimit(toks, hasOrder, hasDir,
              IsKw(At(toks, p2), kLIMIT) /\ AllDigits(At(toks, p2 + 1)), p1, p2,
              IF IsKw(At(toks, p2), kLIMIT) /\ AllDigits(At(toks, p2 + 1)) THEN p2 + 2 ELSE p2)

TailOrder(toks, hasOrder, p1) ==
    TailDir(toks, hasOrder,
            hasOrder /\ (IsKw(At(toks, p1), kASC) \/ IsKw(At(toks, p1), kDESC)), p1,
            IF hasOrder /\ (IsKw(At(toks, p1), kASC) \/ IsKw(At(toks, p1), kDESC))
            THEN p1 + 1 ELSE p1)

\* [ORDER BY col [ASC|DESC]] [LIMIT n [OFFSET m]] [;] to the end of the statement
MatchTail(toks) ==
    IF IsKw(At(toks, 1), kORDER) /\ IsKw(At(toks, 2), kBY) /\ IsIdent(At(toks, 3), FALSE)
    THEN TailOrder(toks, TRUE, 4)
    ELSE TailOrder(toks, FALSE, 1)

\* the statement after SELECT columns FROM table: rest starts behind the
\* table, the WHERE text ends at cut, tail is what follows it
SelectRest(q, f, head, rest, cut, tail) ==
    [ok |-> head /\ tail.ok,
     columns |-> IF head THEN SubSeq(q, 2, f - 1) ELSE <<>>,
     table |-> At(q, f + 1),
     where |-> IF cut > 0 THEN Join(SubSeq(rest, 2, cut)) ELSE <<>>,
     tail |-> tail]

SelectWhere(q, f, head, rest, cut) ==
    SelectRest(q, f, head, rest, cut, MatchTail(Drop(rest, cut)))

SelectHead(q, f, head, rest) ==
    SelectWhere(q, f, head, rest,
                IF IsKw(At(rest, 1), kWHERE)
                THEN Least({k \in 2..Len(rest) : MatchTail(Drop(rest, k)).ok})
                ELSE 0)

SelectFrom(q, f, head) == SelectHead(q, f, head, IF head THEN Drop(q, f + 1) ELSE <<>>)

SelectColumns(q, f) ==
    SelectFrom(q, f,
               /\ IsKw(At(q, 1), kSELECT)
               /\ f > 2
               /\ IsColumnList(SubSeq(q, 2, f - 1))
               /\ IsIdent(At(q, f + 1), FALSE))

IsFrom(tok) == IsKw(tok, kFROM)

\* selectFullRegex; the WHERE text (.+?) is the shortest that lets the rest match
MatchSelect(q) == SelectColumns(q, FirstPos(q, 3, IsFrom))

DeleteFields(q, head, hasWhere) ==
    [ok |-> head /\ (Len(q) = 4 \/ hasWhere),
     table |-> At(q, 3),
     matched |-> hasWhere,
     where |-> IF hasWhere THEN Join(SubSeq(q, 5, Len(q) - 1)) ELSE <<>>]

DeleteWhere(q, head) == DeleteFields(q, head, head /\ Len(q) >= 6 /\ IsKw(q[4], kWHERE))

\* deleteRegex: DELETE FROM name [WHERE (.+?)] ;
MatchDelete(q) ==
    DeleteWhere(q, /\ IsKw(At(q, 1), kDELETE)
                   /\ IsKw(At(q, 2), kFROM)
                   /\ IsIdent(At(q, 3), TRUE)
                   /\ Len(q) >= 4
                   /\ q[Len(q)] = tSemi)

IsWhere(tok) == IsKw(tok, kWHERE)
IsSemi(tok) == tok = tSemi

\* w is the position of WHERE (0 for none), setEnd the last token of the SET list
UpdateFields(q, w, setEnd, ok) ==
    [ok |-> ok,
     table |-> At(q, 2),
     set |-> IF ok THEN SubSeq(q, 4, setEnd) ELSE <<>>,
     where |-> IF ok /\ w > 0 THEN Join(SubSeq(q, w + 1, Len(q) - 1)) ELSE <<>>]

UpdateSet(q, w, setEnd) ==
    UpdateFields(q, w, setEnd,
                 /\ IsKw(At(q, 1), kUPDATE)
                 /\ IsIdent(At(q, 2), TRUE)
                 /\ IsKw(At(q, 3), kSET)
                 /\ Len(q) >= 5
                 /\ q[Len(q)] = tSemi
                 /\ FirstPos(q, 4, IsSemi) > setEnd)

UpdateWhere(q, w) == UpdateSet(q, w, IF w > 0 THEN w - 1 ELSE Len(q) - 1)

UpdateFirstWhere(q, w0) == UpdateWhere(q, IF w0 > 0 /\ w0 < Len(q) - 1 THEN w0 ELSE 0)

\* updateRegex: UPDATE name SET ([^;]+?) [WHERE (.+?)] ;
MatchUpdate(q) == UpdateFirstWhere(q, FirstPos(q, 5, IsWhere))

(***************************************************************************)
(* The WHERE text of DELETE and UPDATE is rewritten before it is parsed    *)
(* (parser.cpp:297-314 and 483-499): "==" becomes "=", and every run of    *)
(* the characters = ! < > gets one blank on each side.                     *)
(***************************************************************************)
RECURSIVE ReplaceEqEq(_)
ReplaceEqEq(str) ==
    IF Len(str) < 2 THEN str
    ELSE IF str[1] = "=" /\ str[2] = "=" THEN <<"=">> \o ReplaceEqEq(Drop(str, 2))
    ELSE <<str[1]>> \o ReplaceEqEq(Tail(str))

IsOpChar(c) == c \in {"=", "!", "<", ">"}

RECURSIVE OpRun(_)
OpRun(str) == IF str # <<>> /\ IsOpChar(Head(str)) THEN 1 + OpRun(Tail(str)) ELSE 0

RECURSIVE SpaceOperators(_)
\* regex_replace(text, "\s*([=!<>]+)\s*", " $1 ")
SpaceOperators(str) ==
    IF str = <<>> THEN <<>>
    ELSE LET ns == LeadingSpaces(str)
             k == OpRun(Drop(str, ns))
             after == Drop(str, ns + k)
         IN  IF k > 0
             THEN <<" ">> \o SubSeq(str, ns + 1, ns + k) \o <<" ">>
                  \o SpaceOperators(Drop(after, LeadingSpaces(after)))
             ELSE <<Head(str)>> \o SpaceOperators(Tail(str))

NormalizeWhere(text) == trim(SpaceOperators(ReplaceEqEq(text)))

(***************************************************************************)
(* The statements a session may enter.                                     *)
(***************************************************************************)
tT == <<"t">>
qX == <<"'","x","'">>
qY == <<"'","y","'">>
tEq == <<"=">>
tGt == <<">">>

Queries ==
    << \* 1: INSERT INTO t(a, b) VALUES('x', 5);
       <<kINSERT, kINTO, tT, tOpen, ColA, tComma, ColB, tClose, kVALUES, tOpen, qX, tComma, <<"5">>, tClose, tSemi>>,
       \* 2: INSERT INTO t(b) VALUES(1);
       <<kINSERT, kINTO, tT, tOpen, ColB, tClose, kVALUES, tOpen, <<"1">>, tClose, tSemi>>,
       \* 3: INSERT INTO t(a) VALUES('y');
       <<kINSERT, kINTO, tT, tOpen, ColA, tClose, kVALUES, tOpen, qY, tClose, tSemi>>,
       \* 4: INSERT INTO t(a, b) VALUES('y');
       <<kINSERT, kINTO, tT, tOpen, ColA, tComma, ColB, tClose, kVALUES, tOpen, qY, tClose, tSemi>>,
       \* 5: INSERT INTO t(a, c) VALUES('y', 1);
       <<kINSERT, kINTO, tT, tOpen, ColA, tComma, ColC, tClose, kVALUES, tOpen, qY, tComma, <<"1">>, tClose, tSemi>>,
       \* 6: INSERT INTO t(a, b) VALUES('y', 'x');
       <<kINSERT, kINTO, tT, tOpen, ColA, tComma, ColB, tClose, kVALUES, tOpen, qY, tComma, qX, tClose, tSemi>>,
       \* 7: DELETE FROM t;
       <<kDELETE, kFROM, tT, tSemi>>,
       \* 8: DELETE FROM t WHERE a = 'x';
       <<kDELETE, kFROM, tT, kWHERE, ColA, tEq, qX, tSemi>>,
       \* 9: DELETE FROM t WHERE c = 1;
       <<kDELETE, kFROM, tT, kWHERE, ColC, tEq, <<"1">>, tSemi>>,
       \* 10: UPDATE t SET b = 5 WHERE a = 'x';
       <<kUPDATE, tT, kSET, ColB, tEq, <<"5">>, kWHERE, ColA, tEq, qX, tSemi>>,
       \* 11: UPDATE t SET a = 'y', b = 1 WHERE b > 3;
       <<kUPDATE, tT, kSET, ColA, tEq, qY, tComma, ColB, tEq, <<"1">>, kWHERE, ColB, tGt, <<"3">>, tSemi>>,
       \* 12: SELECT * FROM t WHERE a = 'x';
       <<kSELECT, tStar, kFROM, tT, kWHERE, ColA, tEq, qX, tSemi>>,
       \* 13: SELECT a FROM t WHERE b = 5;
       <<kSELECT, ColA, kFROM, tT, kWHERE, ColB, tEq, <<"5">>, tSemi>>,
       \* 14: SELECT * FROM t WHERE b > 3 LIMIT 1 OFFSET 1;
       <<kSELECT, tStar, kFROM, tT, kWHERE, ColB, tGt, <<"3">>, kLIMIT, <<"1">>, kOFFSET, <<"1">>, tSemi>>,
       \* 15: SELECT * FROM t ORDER BY b DESC LIMIT 2 OFFSET 1
       <<kSELECT, tStar, kFROM, tT, kORDER, kBY, ColB, kDESC, kLIMIT, <<"2">>, kOFFSET, <<"1">> >>,
       \* 16: SELECT b FROM t LIMIT 0;
       <<kSELECT, ColB, kFROM, tT, kLIMIT, <<"0">>, tSemi>>,
       \* 17: DELETE FROM t WHERE a = 'x'      (no terminating ';')
       <<kDELETE, kFROM, tT, kWHERE, ColA, tEq, qX>>,
       \* 18: DELETE FROM u;
       <<kDELETE, kFROM, <<"u">>, tSemi>>,
       \* 19: SELECT a FROM t WHERE b > 3 LIMIT 1;
       <<kSELECT, ColA, kFROM, tT, kWHERE, ColB, tGt, <<"3">>, kLIMIT, <<"1">>, tSemi>>,
       \* 20: INSERT INTO t(a, b) VALUES('y', NULL);
       <<kINSERT, kINTO, tT, tOpen, ColA, tComma, ColB, tClose, kVALUES, tOpen, qY, tComma, <<"N","U","L","L">>, tClose, tSemi>>,
       \* 21: SELECT * FROM t ORDER BY b Desc;
       <<kSELECT, tStar, kFROM, tT, kORDER, kBY, ColB, <<"D","e","s","c">>, tSemi>>,
       \* 22: SELECT * FROM t ORDER BY c;
       <<kSELECT, tStar, kFROM, tT, kORDER, kBY, ColC, tSemi>>,
       \* 23: SELECT c FROM t;
       <<kSELECT, ColC, kFROM, tT, tSemi>>,
       \* 24: SELECT * FROM t WHERE c = 1;
       <<kSELECT, tStar, kFROM, tT, kWHERE, ColC, tEq, <<"1">>, tSemi>>,
       \* 25: SELECT * FROM t WHERE A = 'x';
       <<kSELECT, tStar, kFROM, tT, kWHERE, <<"A">>, tEq, qX, tSemi>>,
       \* 26: UPDATE t SET b = 3000000000 WHERE a = 'x';
       <<kUPDATE, tT, kSET, ColB, tEq, <<"3","0","0","0","0","0","0","0","0","0">>, kWHERE, ColA, tEq, qX, tSemi>>,
       \* 27: INSERT INTO t(a, b) VALUES('y', 3000000000);
       <<kINSERT, kINTO, tT, tOpen, ColA, tComma, ColB, tClose, kVALUES, tOpen, qY, tComma, <<"3","0","0","0","0","0","0","0","0","0">>, tClose, tSemi>>,
       \* 28: UPDATE t SET b = NULL WHERE a = 'x';
       <<kUPDATE, tT, kSET, ColB, tEq, <<"N","U","L","L">>, kWHERE, ColA, tEq, qX, tSemi>>,
       \* 29: UPDATE t SET b = 'y' WHERE a = 'x';
       <<kUPDATE, tT, kSET, ColB, tEq, qY, kWHERE, ColA, tEq, qX, tSemi>> >>

(***************************************************************************)
(* State.                                                                  *)
(***************************************************************************)
VARIABLES
    files,      \* the column files and temporary files of table t under both roots
    tableInfo,  \* Table-info.json of table t under each root
    op,         \* the mutating operation in progress
    last,       \* what the last statement did: its status, error and result
    pre,        \* the files when the last statement began
    stmts,      \* statements entered so far
    allOk,      \* no Insert, Update or Delete has failed or crashed so far
    parsedQueries,  \* the statements of Queries as ParseQuery::parse reads them
    evaluated,  \* a stored value, a condition text and what the evaluator made of them
    racers,     \* the operations of two processes working on the same table
    console     \* the interactive console: its loop, the current database, the databases

vars == <<files, tableInfo, op, last, pre, stmts, allOk, parsedQueries, evaluated, racers, console>>

\* no condition is being evaluated on its own, no second process runs
NoEvaluation == [stage |-> "none"]
NoRacers == <<>>
NoConsole == [pc |-> "none"]

Idle ==
    [kind |-> "none", pc |-> "idle", q |-> 0, root |-> HomeRoot, cols |-> <<>>, i |-> 0,
     staged |-> <<>>, k |-> 0, columns |-> <<>>, values |-> <<>>,
     rows |-> <<>>, nrows |-> 0, updates |-> <<>>, count |-> 0]

NoResult ==
    [q |-> 0, stmt |-> "none", status |-> "none", err |-> "", count |-> 0, rows |-> <<>>,
     staged |-> <<>>, renamed |-> 0, phase |-> "idle"]

\* an entry of staged is <<tempPath, finalPath, data>>: the pair the code
\* keeps, and with it the array that was written to the temporary file

\* the rows the initial tables are drawn from: <<a, b>>
RowPool ==
    { <<JStr(<<"x">>), JInt(1)>>, <<JStr(<<"x">>), JInt(5)>>, <<JStr(<<"y">>), JInt(5)>> }

RowSeqs == UNION {[1..n -> RowPool] : n \in 0..MaxRows}

ColumnOf(rowSeq, j) == [i \in DOMAIN rowSeq |-> rowSeq[i][j]]

\* both trees hold table t as the creation collaborator and earlier sessions
\* left it: every column file present, all of one length, no temporary file
InitFiles(rowSeq) ==
    [p \in Paths |->
        IF p[3] = "final"
        THEN FileOf(ColumnOf(rowSeq, CHOOSE j \in DOMAIN TableInfo : TableInfo[j].name = p[2]))
        ELSE Absent]

CanEnter == op.pc = "idle" /\ stmts < MaxStmts

\* fs::exists(basePath): t is the only table of either tree
TableExists(table) == table = tT

\* a statement returns or throws to the caller of parse: status is "ok" or
\* "error"; staged, renamed and phase tell how far a mutating operation came
Finish(qi, stmt, status, err, count, rows, staged, renamed, phase) ==
    /\ last' = [q |-> qi, stmt |-> stmt, status |-> status, err |-> err, count |-> count,
                rows |-> rows, staged |-> staged, renamed |-> renamed, phase |-> phase]
    /\ op' = Idle

\* parse has dispatched a mutating operation that now runs step by step
Running(qi, stmt) == [NoResult EXCEPT !.q = qi, !.stmt = stmt, !.status = "running"]

\* a faulty variant of Enter: the statement writes the schema document back
\* without its columns
Enter_rewrites ==
    /\ pre' = files
    /\ stmts' = stmts + 1
    /\ tableInfo' = [r \in Roots |-> <<>>]
    /\ UNCHANGED <<parsedQueries, evaluated, racers, console>>

Enter ==
    /\ pre' = files
    /\ stmts' = stmts + 1
    /\ UNCHANGED <<tableInfo, parsedQueries, evaluated, racers, console>>

\* the if / else-if chain of parse (parser.cpp:107-514): the first expression
\* that matches decides; "none" when no branch is taken
Dispatch(q) ==
    IF MatchInsert(q).ok THEN "insert"
    ELSE IF MatchSelect(q).ok THEN "select"
    ELSE IF MatchDelete(q).ok THEN "delete"
    ELSE IF MatchUpdate(q).ok THEN "update"
    ELSE "none"

\* the statements a session of Spec or a process of RaceSpec may enter
SessionStatements == 1..27

\* the branch each of these statements takes
Branch == [qi \in SessionStatements |-> Dispatch(Queries[qi])]

StatementsOf(kind) == {qi \in DOMAIN parsedQueries.branch : parsedQueries.branch[qi] = kind}

(***************************************************************************)
(* INSERT: parser.cpp:107-164 and InsertIntoTable::insert.                 *)
(***************************************************************************)
\* insert.cpp:69-78, "" when the lists pass
InsertValidation(info, columns, values) ==
    IF Len(columns) # Len(values) THEN "LengthMismatch"
    ELSE IF Len(columns) > Len(info) THEN "TooManyColumns"
    ELSE IF \E i \in DOMAIN columns : ~InfoContains(info, columns[i]) THEN "UnknownColumn"
    ELSE ""

\* a faulty variant of TypeValid: the value is taken whatever the declared type
TypeValid_any(type, typedVal) == TRUE

\* insert.cpp:127-140: the value's type against the declared type family
TypeValid(type, typedVal) ==
    LET expectedType == toLower(type)
    IN  IF expectedType \in {<<"i","n","t">>, <<"i","n","t","e","g","e","r">>}
        THEN is_number_integer(typedVal)
        ELSE IF expectedType \in {<<"f","l","o","a","t">>, <<"d","o","u","b","l","e">>, <<"r","e","a","l">>}
        THEN is_number_float(typedVal) \/ is_number_integer(typedVal)
        ELSE IF expectedType \in {<<"b","o","o","l">>, <<"b","o","o","l","e","a","n">>}
        THEN is_boolean(typedVal)
        ELSE is_string(typedVal)

\* std::find(dataArray.begin(), dataArray.end(), typedVal) != end
Occurs(dataArray, typedVal) == \E i \in DOMAIN dataArray : JsonEq(dataArray[i], typedVal)

\* insert.cpp:100-163 for one schema column: the error thrown, or the new array
InsertColumnResult(colInfo, dataArray, columns, values) ==
    LET hits == {i \in DOMAIN columns : columns[i] = colInfo.name}
        index == IF hits = {} THEN 0 ELSE CHOOSE i \in hits : \A j \in hits : i <= j
        typedVal == values[index]
    IN  IF index = 0
        THEN IF colInfo.notNull THEN [err |-> "NotNullViolation", data |-> dataArray]
             ELSE [err |-> "", data |-> Append(dataArray, JNull)]
        ELSE IF ~is_null(typedVal) /\ ~TypeValid(colInfo.type, typedVal)
        THEN [err |-> "TypeMismatch", data |-> dataArray]
        ELSE IF colInfo.isUnique /\ Occurs(dataArray, typedVal)
        THEN [err |-> "DuplicateValue", data |-> dataArray]
        ELSE [err |-> "", data |-> Append(dataArray, typedVal)]

\* a faulty variant of InsertTempPath: the sibling file Delete and Update stage to
InsertTempPath_sibling(root, col) == SiblingTempPath(root, col)

\* insert.cpp:165
InsertTempPath(root, col) == ChildTempPath(root, col)

\* parser.cpp:108-162: the table, the column names and the typed values of an
\* INSERT statement; ok is false when stoi or stod throws on a literal
InsertLiterals(m, lits) ==
    [table |-> m.table,
     columns |-> SplitComma(m.columns, <<>>),
     values |-> [i \in DOMAIN lits |-> lits[i].v],
     ok |-> \A i \in DOMAIN lits : lits[i].ok]

InsertTexts(m, texts) == InsertLiterals(m, [i \in DOMAIN texts |-> ClassifyLiteral(texts[i])])

InsertMatched(m) == InsertTexts(m, SplitComma(m.values, <<>>))

InsertArgs(q) == InsertMatched(MatchInsert(q))

InsertStatements(branch) ==
    [qi \in {i \in DOMAIN branch : branch[i] = "insert"} |-> InsertArgs(Queries[qi])]

ParseInsert(qi) ==
    LET a == parsedQueries.insert[qi]
        columns == a.columns
        values == a.values
        err == IF ~a.ok THEN "OutOfRange"
               ELSE IF ~TableExists(a.table) THEN "TableNotFound"
               ELSE InsertValidation(tableInfo[HomeRoot], columns, values)
    IN  /\ CanEnter
        /\ qi \in StatementsOf("insert")
        /\ Enter
        /\ UNCHANGED files
        /\ IF err # ""
           THEN /\ Finish(qi, "insert", "error", err, 0, <<>>, <<>>, 0, "validate")
                /\ allOk' = FALSE
           ELSE /\ op' = [Idle EXCEPT !.kind = "insert", !.pc = "stage", !.q = qi,
                                      !.root = HomeRoot,
                                      !.cols = SchemaColumns(tableInfo[HomeRoot]), !.i = 1,
                                      !.columns = columns, !.values = values]
                /\ last' = Running(qi, "insert")
                /\ UNCHANGED allOk

\* one pass of the loop of insert.cpp:83-173; a throw runs the catch block (180-188)
InsertColumn ==
    /\ op.kind = "insert" /\ op.pc = "stage"
    /\ LET column == op.cols[op.i]
           finalPath == FinalPath(op.root, column)
           tempPath == InsertTempPath(op.root, column)
           res == InsertColumnResult(InfoOf(tableInfo[op.root], column), files[finalPath].data,
                                     op.columns, op.values)
           err == IF ~Exists(files, finalPath) THEN "IOFailure" ELSE res.err
       IN  IF err # ""
           THEN /\ files' = RemoveStaged(files, op.staged)
                /\ Finish(op.q, "insert", "error", err, 0, <<>>, op.staged, 0, "stage")
                /\ allOk' = FALSE
           ELSE /\ files' = WriteFile(files, tempPath, res.data)
                /\ op' = [op EXCEPT !.staged = Append(@, <<tempPath, finalPath, res.data>>),
                                    !.i = @ + 1,
                                    !.pc = IF op.i = Len(op.cols) THEN "commit" ELSE "stage"]
                /\ UNCHANGED <<last, allOk>>
    /\ UNCHANGED <<tableInfo, pre, stmts, parsedQueries, evaluated, racers, console>>

(***************************************************************************)
(* The commit loops (insert.cpp:175-179, deleteRow.cpp:172-174,            *)
(* updateRow.cpp:176-178) and their catch blocks.                          *)
(***************************************************************************)
\* the operation returns: Update its count, Insert and Delete nothing
Returns ==
    Finish(op.q, op.kind, "ok", "", IF op.kind = "update" THEN op.count ELSE 0, <<>>,
           op.staged, Len(op.staged), "commit")

\* a faulty variant of Commit: the operation returns after its first rename
Commit_single ==
    /\ op.pc = "commit" /\ op.k < Len(op.staged)
    /\ Exists(files, op.staged[op.k + 1][1])
    /\ files' = Rename(files, op.staged[op.k + 1][1], op.staged[op.k + 1][2])
    /\ Finish(op.q, op.kind, "ok", "", IF op.kind = "update" THEN op.count ELSE 0, <<>>,
              op.staged, Len(op.staged), "commit")
    /\ UNCHANGED <<tableInfo, pre, stmts, parsedQueries, allOk, evaluated, racers, console>>

\* fs::rename of the next staged pair; it throws when the temporary file is missing
Commit ==
    /\ op.pc = "commit" /\ op.k < Len(op.staged)
    /\ LET pair == op.staged[op.k + 1] IN
       IF Exists(files, pair[1])
       THEN /\ files' = Rename(files, pair[1], pair[2])
            /\ IF op.k + 1 = Len(op.staged)
               THEN Returns
               ELSE /\ op' = [op EXCEPT !.k = @ + 1]
                    /\ UNCHANGED last
            /\ UNCHANGED allOk
       ELSE /\ files' = RemoveStaged(files, op.staged)
            /\ Finish(op.q, op.kind, "error", "IOFailure", 0, <<>>, op.staged, op.k, "commit")
            /\ allOk' = FALSE
    /\ UNCHANGED <<tableInfo, pre, stmts, parsedQueries, evaluated, racers, console>>

\* fs::rename fails although the temporary file exists (permissions, device, ...)
CommitFault ==
    /\ op.pc = "commit" /\ op.k < Len(op.staged)
    /\ Exists(files, op.staged[op.k + 1][1])
    /\ files' = RemoveStaged(files, op.staged)
    /\ Finish(op.q, op.kind, "error", "IOFailure", 0, <<>>, op.staged, op.k, "commit")
    /\ allOk' = FALSE
    /\ UNCHANGED <<tableInfo, pre, stmts, parsedQueries, evaluated, racers, console>>

\* the process dies in the middle of a mutating operation; nothing is cleaned up
Crash ==
    /\ op.pc \in {"stage", "commit"}
    /\ Finish(op.q, op.kind, "crashed", "", 0, <<>>, op.staged, op.k, op.pc)
    /\ allOk' = FALSE
    /\ UNCHANGED <<files, tableInfo, pre, stmts, parsedQueries, evaluated, racers, console>>

(***************************************************************************)
(* DELETE: parser.cpp:289-316 and DeleteRow::deleteRow.                    *)
(***************************************************************************)
\* a faulty variant of MatchingRows: every position is taken, whatever the condition
MatchingRows_all(values, condition, i) == [j \in 1..Len(values) |-> Len(values) - j]

RECURSIVE MatchingRows(_, _, _)
\* the 0-based positions, in descending order, whose value satisfies the
\* condition; a throw of evaluateCondition counts as no match
MatchingRows(values, condition, i) ==
    IF i > Len(values) THEN <<>>
    ELSE LET e == evaluateCondition(values[i], condition)
         IN  MatchingRows(values, condition, i + 1)
             \o (IF ~e.threw /\ e.res THEN <<i - 1>> ELSE <<>>)

RemoveAt(arr, row) == SubSeq(arr, 1, row) \o SubSeq(arr, row + 2, Len(arr))

\* a faulty variant of EraseRows: the positions are taken in ascending order,
\* so every removal shifts the positions still to be removed
EraseRows_ascending(arr, rowsToDelete) ==
    LET n == Len(rowsToDelete)
        first == IF n >= 1 /\ rowsToDelete[n] < Len(arr) THEN RemoveAt(arr, rowsToDelete[n]) ELSE arr
    IN  IF n >= 2 /\ rowsToDelete[n - 1] < Len(first) THEN RemoveAt(first, rowsToDelete[n - 1])
        ELSE first

RECURSIVE EraseRows(_, _)
\* deleteRow.cpp:150-156: rows are taken in the order given, an index
\* beyond the array is skipped
EraseRows(arr, rowsToDelete) ==
    IF rowsToDelete = <<>> THEN arr
    ELSE EraseRows(IF Head(rowsToDelete) < Len(arr) THEN RemoveAt(arr, Head(rowsToDelete)) ELSE arr,
                   Tail(rowsToDelete))

\* parser.cpp:290-314: the table, the WHERE text and the condition DeleteRow
\* parses from the normalised text (deleteRow.cpp:54-59)
DeleteText(m, text) ==
    [table |-> m.table, text |-> text, condition |-> parseCondition(NormalizeWhere(text))]

DeleteMatched(m) == DeleteText(m, IF m.matched THEN m.where ELSE <<>>)

DeleteArgs(q) == DeleteMatched(MatchDelete(q))

DeleteStatements(branch) ==
    [qi \in {i \in DOMAIN branch : branch[i] = "delete"} |-> DeleteArgs(Queries[qi])]

\* a faulty variant of DeleteValidation: the test of parser.cpp:293-295 is left out
DeleteValidation_unchecked(m, info, fs) ==
    IF ~m.condition.ok THEN "ConditionSyntaxError"
    ELSE IF ~TableExists(m.table) THEN "TableNotFound"
    ELSE IF ~InfoContains(info, m.condition.column) THEN "ColumnNotFound"
    ELSE IF ~Exists(fs, FinalPath(HomeRoot, m.condition.column)) THEN "IOFailure"
    ELSE ""

\* the error a DELETE statement ends with before any row is looked at, "" for
\* none: parser.cpp:293-295, then deleteRow.cpp:54-102
DeleteValidation(m, info, fs) ==
    IF m.text = <<>> THEN "UnsafeDelete"
    ELSE IF ~m.condition.ok THEN "ConditionSyntaxError"
    ELSE IF ~TableExists(m.table) THEN "TableNotFound"
    ELSE IF ~InfoContains(info, m.condition.column) THEN "ColumnNotFound"
    ELSE IF ~Exists(fs, FinalPath(HomeRoot, m.condition.column)) THEN "IOFailure"
    ELSE ""

ParseDelete(qi) ==
    LET m == parsedQueries.delete[qi]
        condition == m.condition
        info == tableInfo[HomeRoot]
        targetPath == FinalPath(HomeRoot, condition.column)
        rowsToDelete == MatchingRows(files[targetPath].data, condition, 1)
        err == DeleteValidation(m, info, files)
    IN  /\ CanEnter
        /\ qi \in StatementsOf("delete")
        /\ Enter
        /\ UNCHANGED files
        /\ IF err # ""
           THEN /\ Finish(qi, "delete", "error", err, 0, <<>>, <<>>, 0, "validate")
                /\ allOk' = FALSE
           ELSE IF rowsToDelete = <<>>
           THEN /\ Finish(qi, "delete", "ok", "", 0, <<>>, <<>>, 0, "validate")
                /\ UNCHANGED allOk
           ELSE /\ op' = [Idle EXCEPT !.kind = "delete", !.pc = "stage", !.q = qi,
                                      !.root = HomeRoot,
                                      !.cols = SchemaColumns(info), !.i = 1,
                                      !.rows = rowsToDelete]
                /\ last' = Running(qi, "delete")
                /\ UNCHANGED allOk

\* after the last column: commit what was staged, or return when nothing was
AfterStage(staged) ==
    IF op.i < Len(op.cols)
    THEN /\ op' = [op EXCEPT !.staged = staged, !.i = @ + 1]
         /\ UNCHANGED last
    ELSE IF staged = <<>>
    THEN Finish(op.q, op.kind, "ok", "", op.count, <<>>, <<>>, 0, "stage")
    ELSE /\ op' = [op EXCEPT !.staged = staged, !.i = @ + 1, !.pc = "commit"]
         /\ UNCHANGED last

\* one pass of the loop of deleteRow.cpp:127-170
DeleteColumn ==
    /\ op.kind = "delete" /\ op.pc = "stage"
    /\ LET colName == op.cols[op.i]
           finalPath == FinalPath(op.root, colName)
           tempPath == SiblingTempPath(op.root, colName)
           arr == EraseRows(files[finalPath].data, op.rows)
       IN  IF ~Exists(files, finalPath)
           THEN /\ files' = RemoveStaged(files, op.staged)
                /\ Finish(op.q, "delete", "error", "IOFailure", 0, <<>>, op.staged, 0, "stage")
                /\ allOk' = FALSE
           ELSE IF Len(arr) < Len(files[finalPath].data)
           THEN /\ files' = WriteFile(files, tempPath, arr)
                /\ AfterStage(Append(op.staged, <<tempPath, finalPath, arr>>))
                /\ UNCHANGED allOk
           ELSE /\ AfterStage(op.staged)
                /\ UNCHANGED <<files, allOk>>
    /\ UNCHANGED <<tableInfo, pre, stmts, parsedQueries, evaluated, racers, console>>

(***************************************************************************)
(* UPDATE: parser.cpp:427-510 and UpdateOperation::updateTable.            *)
(***************************************************************************)
FirstEq(item) ==
    IF Contains(item, "=") THEN CHOOSE i \in DOMAIN item : item[i] = "=" /\ \A j \in 1..(i - 1) : item[j] # "="
    ELSE 0

SetColumn(item) == trim(Take(item, FirstEq(item) - 1))
SetValue(item) == trim(Drop(item, FirstEq(item)))

\* updates[column] = value: the last assignment of a column wins
UpdatesMap(items) ==
    [c \in {SetColumn(items[i]) : i \in DOMAIN items} |->
        LET j == CHOOSE k \in DOMAIN items :
                    SetColumn(items[k]) = c /\ \A l \in DOMAIN items : SetColumn(items[l]) = c => l <= k
        IN  ClassifyLiteral(SetValue(items[j]))]

\* the orders in which the unordered_map may be iterated
Orders(S) == {o \in [1..Cardinality(S) -> S] : \A i, j \in DOMAIN o : i # j => o[i] # o[j]}

\* a faulty variant of MarkedRows: every row is marked, whatever the condition
MarkedRows_all(values, condition, i) == [j \in 1..Len(values) |-> j - 1]

RECURSIVE MarkedRows(_, _, _)
\* the 0-based rows with rowsToUpdate[i] = true, ascending
MarkedRows(values, condition, i) ==
    IF i > Len(values) THEN <<>>
    ELSE LET e == evaluateCondition(values[i], condition)
         IN  (IF ~e.threw /\ e.res THEN <<i - 1>> ELSE <<>>)
             \o MarkedRows(values, condition, i + 1)

AllRows(n) == [i \in 1..n |-> i - 1]

\* a faulty variant of UpdatedValues: the new value is written to every row
UpdatedValues_everywhere(values, rows, nrows, newValue) == [i \in DOMAIN values |-> newValue]

\* updateRow.cpp:151-159: the new array of a SET column
UpdatedValues(values, rows, nrows, newValue) ==
    [i \in DOMAIN values |->
        IF i <= nrows /\ (i - 1) \in Range(rows) /\ ~JsonEq(values[i], newValue)
        THEN newValue ELSE values[i]]

\* parser.cpp:428-499: the table, the SET items, the updates map and the
\* normalised WHERE text with the condition updateTable parses from it
UpdateItems(m, items, whereText) ==
    [table |-> m.table, items |-> items,
     updates |-> IF \E i \in DOMAIN items : FirstEq(items[i]) = 0 THEN <<>> ELSE UpdatesMap(items),
     whereText |-> whereText, condition |-> parseCondition(whereText)]

UpdateMatched(m) ==
    UpdateItems(m, SplitComma(m.set, <<>>),
                IF m.where = <<>> THEN <<>> ELSE NormalizeWhere(m.where))

UpdateArgs(q) == UpdateMatched(MatchUpdate(q))

UpdateStatements(branch) ==
    [qi \in {i \in DOMAIN branch : branch[i] = "update"} |-> UpdateArgs(Queries[qi])]

ParseUpdate(qi, order) ==
    LET m == parsedQueries.update[qi]
        items == m.items
        updates == m.updates
        whereText == m.whereText
        condition == m.condition
        info == tableInfo[CwdRoot]
        condColPath == FinalPath(CwdRoot, condition.column)
        firstColPath == FinalPath(CwdRoot, info[1].name)
        rows == IF whereText # <<>> THEN MarkedRows(files[condColPath].data, condition, 1)
                ELSE IF Exists(files, firstColPath) THEN AllRows(Len(files[firstColPath].data))
                ELSE <<>>
        nrows == IF whereText # <<>> THEN Len(files[condColPath].data)
                 ELSE IF Exists(files, firstColPath) THEN Len(files[firstColPath].data)
                 ELSE 0
        err == IF \E i \in DOMAIN items : FirstEq(items[i]) = 0 THEN "StatementSyntaxError"
               ELSE IF \E c \in DOMAIN updates : ~updates[c].ok THEN "OutOfRange"
               ELSE IF ~TableExists(m.table) THEN "TableNotFound"
               ELSE IF whereText # <<>> /\ ~condition.ok THEN "ConditionSyntaxError"
               ELSE IF \E c \in DOMAIN updates : ~InfoContains(info, c) THEN "UnknownColumn"
               ELSE IF whereText # <<>> /\ ~Exists(files, condColPath) THEN "ColumnNotFound"
               ELSE ""
    IN  /\ CanEnter
        /\ qi \in StatementsOf("update")
        /\ order \in Orders(DOMAIN updates)
        /\ Enter
        /\ UNCHANGED files
        /\ IF err # ""
           THEN /\ Finish(qi, "update", "error", err, 0, <<>>, <<>>, 0, "validate")
                /\ allOk' = FALSE
           ELSE /\ op' = [Idle EXCEPT !.kind = "update", !.pc = "stage", !.q = qi,
                                      !.root = CwdRoot,
                                      !.cols = order, !.i = 1,
                                      !.updates = [i \in DOMAIN order |-> updates[order[i]].v],
                                      !.rows = rows, !.nrows = nrows, !.count = Len(rows)]
                /\ last' = Running(qi, "update")
                /\ UNCHANGED allOk

\* a faulty variant of UpdateColumn: the column is staged whether or not a
\* value changed
UpdateColumn_always ==
    /\ op.kind = "update" /\ op.pc = "stage"
    /\ LET colName == op.cols[op.i]
           colPath == FinalPath(op.root, colName)
           tempPath == SiblingTempPath(op.root, colName)
           values == UpdatedValues(files[colPath].data, op.rows, op.nrows, op.updates[op.i])
       IN  IF ~Exists(files, colPath)
           THEN /\ Finish(op.q, "update", "error", "IOFailure", 0, <<>>, op.staged, 0, "stage")
                /\ allOk' = FALSE
                /\ UNCHANGED files
           ELSE /\ files' = WriteFile(files, tempPath, values)
                /\ AfterStage(Append(op.staged, <<tempPath, colPath, values>>))
                /\ UNCHANGED allOk
    /\ UNCHANGED <<tableInfo, pre, stmts, parsedQueries, evaluated, racers, console>>

\* one pass of the loop of updateRow.cpp:129-171; its throws are outside every
\* try block, so nothing staged so far is removed
UpdateColumn ==
    /\ op.kind = "update" /\ op.pc = "stage"
    /\ LET colName == op.cols[op.i]
           colPath == FinalPath(op.root, colName)
           tempPath == SiblingTempPath(op.root, colName)
           values == UpdatedValues(files[colPath].data, op.rows, op.nrows, op.updates[op.i])
       IN  IF ~Exists(files, colPath)
           THEN /\ Finish(op.q, "update", "error", "IOFailure", 0, <<>>, op.staged, 0, "stage")
                /\ allOk' = FALSE
                /\ UNCHANGED files
           ELSE IF values # files[colPath].data
           THEN /\ files' = WriteFile(files, tempPath, values)
                /\ AfterStage(Append(op.staged, <<tempPath, colPath, values>>))
                /\ UNCHANGED allOk
           ELSE /\ AfterStage(op.staged)
                /\ UNCHANGED <<files, allOk>>
    /\ UNCHANGED <<tableInfo, pre, stmts, parsedQueries, evaluated, racers, console>>

\* the column the stage loop is at would be written to its temporary file
WouldStage ==
    LET colName == op.cols[op.i]
        finalPath == FinalPath(op.root, colName)
    IN  /\ Exists(files, finalPath)
        /\ IF op.kind = "delete"
           THEN Len(EraseRows(files[finalPath].data, op.rows)) < Len(files[finalPath].data)
           ELSE UpdatedValues(files[finalPath].data, op.rows, op.nrows, op.updates[op.i])
                    # files[finalPath].data

\* the temporary file cannot be opened (deleteRow.cpp:163, updateRow.cpp:166):
\* Delete removes what it staged (175-181), Update throws past its staged files
StageFault ==
    /\ op.pc = "stage" /\ op.kind \in {"delete", "update"}
    /\ WouldStage
    /\ files' = IF op.kind = "delete" THEN RemoveStaged(files, op.staged) ELSE files
    /\ Finish(op.q, op.kind, "error", "IOFailure", 0, <<>>, op.staged, 0, "stage")
    /\ allOk' = FALSE
    /\ UNCHANGED <<tableInfo, pre, stmts, parsedQueries, evaluated, racers, console>>

(***************************************************************************)
(* SELECT: parser.cpp:165-288 and Selection::selectFromTable.              *)
(***************************************************************************)
\* 0-based element access; nlohmann fills a missing element with null
Elem(arr, idx) == IF idx + 1 \in DOMAIN arr THEN arr[idx + 1] ELSE JNull

\* parser.cpp:239-246: the schema's column that equals the name up to letter
\* case (strcasecmp), <<>> when there is none
ResolveColumn(info, name) ==
    LET hits == {i \in DOMAIN info : toLower(info[i].name) = toLower(name)}
    IN  IF hits = {} THEN <<>> ELSE info[CHOOSE i \in hits : \A j \in hits : i <= j].name

\* the whereCondition lambda (parser.cpp:253-265) on the row built from the
\* loaded columns: a column that was not loaded is "not found in row"
WhereHolds(loaded, root, fs, condition, rowIdx) ==
    /\ condition.column \in loaded
    /\ LET e == evaluateCondition(Elem(fs[FinalPath(root, condition.column)].data, rowIdx), condition)
       IN  ~e.threw /\ e.res

\* select.cpp:79-90: the columns read from disk
LoadedColumns(selectedColumns, orderByColumn) ==
    Range(selectedColumns) \cup (IF orderByColumn = <<>> THEN {} ELSE {orderByColumn})

\* std::map iterates its keys in ascending order: columnData.begin()
FirstKey(S) == CHOOSE c \in S : \A d \in S : c = d \/ LexLess(c, d)

\* select.cpp:110-113: the orders std::sort may leave the row indices in
SortedOrders(rowCount, orderColumn, hasOrder, ascending) ==
    IF ~hasOrder THEN {[i \in 1..rowCount |-> i - 1]}
    ELSE {o \in [1..rowCount -> 0..(rowCount - 1)] :
            /\ \A i, j \in 1..rowCount : i # j => o[i] # o[j]
            /\ \A i, j \in 1..rowCount :
                 i < j => IF ascending
                          THEN ~JsonLess(Elem(orderColumn, o[j]), Elem(orderColumn, o[i]))
                          ELSE ~JsonLess(Elem(orderColumn, o[i]), Elem(orderColumn, o[j]))}

RECURSIVE SelectLoop(_, _, _, _, _, _, _)
\* select.cpp:120-160 from position i of rowIndices on; include(rowIdx) is
\* the WHERE test, limit < 0 stands for no LIMIT
SelectLoop(rowIndices, i, include(_), hasLimit, limit, offset, st) ==
    IF i > Len(rowIndices) THEN st.result
    ELSE LET rowIdx == rowIndices[i] IN
         IF ~include(rowIdx)
         THEN SelectLoop(rowIndices, i + 1, include, hasLimit, limit, offset, st)
         ELSE IF st.skipped < offset
         THEN SelectLoop(rowIndices, i + 1, include, hasLimit, limit, offset,
                         [st EXCEPT !.skipped = @ + 1])
         ELSE IF hasLimit /\ st.returned >= limit
         THEN st.result
         ELSE SelectLoop(rowIndices, i + 1, include, hasLimit, limit, offset,
                         [st EXCEPT !.returned = @ + 1, !.result = Append(@, rowIdx)])

\* select.cpp:151-158: the row returned for a row index
ProjectRow(root, fs, selectedColumns, rowIdx) ==
    [c \in Range(selectedColumns) |-> Elem(fs[FinalPath(root, c)].data, rowIdx)]

\* parser.cpp:166-227: the clauses of a SELECT statement and the condition
\* parsed from its WHERE text, which this branch does not normalise
SelectMatched(m) ==
    [table |-> m.table, columns |-> m.columns, where |-> m.where, tail |-> m.tail,
     parsed |-> parseCondition(m.where)]

SelectClauses(q) == SelectMatched(MatchSelect(q))

SelectStatements(branch) ==
    [qi \in {i \in DOMAIN branch : branch[i] = "select"} |-> SelectClauses(Queries[qi])]

\* the statement's clauses as parse hands them to selectFromTable
SelectArgs(qi) ==
    LET m == parsedQueries.select[qi]
        info == tableInfo[CwdRoot]
        parsed == m.parsed
        resolved == ResolveColumn(info, parsed.column)
    IN  [table |-> m.table,
         columns |-> IF m.columns = <<tStar>> THEN <<>> ELSE SplitComma(m.columns, <<>>),
         hasWhere |-> m.where # <<>>,
         whereErr |-> IF m.where = <<>> THEN ""
                      ELSE IF ~parsed.ok THEN "ConditionSyntaxError"
                      ELSE IF ~TableExists(m.table) THEN "TableNotFound"
                      ELSE IF resolved = <<>> THEN "ColumnNotFound"
                      ELSE "",
         condition |-> [parsed EXCEPT !.column = resolved],
         orderByColumn |-> m.tail.orderBy,
         ascending |-> m.tail.order \notin {<<"D","E","S","C">>, <<"d","e","s","c">>},
         hasLimit |-> m.tail.hasLimit,
         limit |-> IF m.tail.hasLimit THEN NatOf(m.tail.limit) ELSE 0,
         offset |-> IF m.tail.hasOffset THEN NatOf(m.tail.offset) ELSE 0]

\* the columns selectFromTable projects (select.cpp:69-70)
SelectedColumns(a) ==
    IF a.columns = <<>> THEN SchemaColumns(tableInfo[CwdRoot]) ELSE a.columns

\* the error selectFromTable throws before any row is read, "" when none
SelectError(a) ==
    LET sel == SelectedColumns(a)
    IN  IF a.whereErr # "" THEN a.whereErr
        ELSE IF ~TableExists(a.table) THEN "TableNotFound"
        ELSE IF \E i \in DOMAIN sel : ~InfoContains(tableInfo[CwdRoot], sel[i]) THEN "ColumnNotFound"
        ELSE IF \E c \in LoadedColumns(sel, a.orderByColumn) : ~Exists(files, FinalPath(CwdRoot, c))
        THEN "IOFailure"
        ELSE ""

\* the row indices selectFromTable returns when std::sort leaves rowIndices
SelectedIndices(a, rowIndices) ==
    LET loaded == LoadedColumns(SelectedColumns(a), a.orderByColumn)
        include(rowIdx) == ~a.hasWhere \/ WhereHolds(loaded, CwdRoot, files, a.condition, rowIdx)
    IN  SelectLoop(rowIndices, 1, include, a.hasLimit, a.limit, a.offset,
                   [skipped |-> 0, returned |-> 0, result |-> <<>>])

\* select.cpp:92-114: the possible contents of rowIndices
RowOrders(a) ==
    LET loaded == LoadedColumns(SelectedColumns(a), a.orderByColumn)
        rowCount == IF loaded = {} THEN 0 ELSE Len(files[FinalPath(CwdRoot, FirstKey(loaded))].data)
    IN  SortedOrders(rowCount,
                     IF a.orderByColumn = <<>> THEN <<>>
                     ELSE files[FinalPath(CwdRoot, a.orderByColumn)].data,
                     a.orderByColumn # <<>>, a.ascending)

\* select.cpp:116-160: the rows returned when std::sort leaves rowIndices
ResultRows(a, idx) ==
    [i \in DOMAIN idx |-> ProjectRow(CwdRoot, files, SelectedColumns(a), idx[i])]

\* the results selectFromTable may return in this state
SelectResults(a) == {ResultRows(a, SelectedIndices(a, rowIndices)) : rowIndices \in RowOrders(a)}

\* Selection::selectFromTable with the arguments parse hands it
SelectFromTable(qi, a, err) ==
    IF err # ""
    THEN Finish(qi, "select", "error", err, 0, <<>>, <<>>, 0, "validate")
    ELSE \E rows \in SelectResults(a) :
            Finish(qi, "select", "ok", "", 0, rows, <<>>, 0, "validate")

SelectStatement(qi, a) == SelectFromTable(qi, a, SelectError(a))

ParseSelect(qi) ==
    /\ CanEnter
    /\ qi \in StatementsOf("select")
    /\ Enter
    /\ SelectStatement(qi, SelectArgs(qi))
    /\ UNCHANGED <<files, allOk>>

\* no branch of parse is taken: an empty query throws (parser.cpp:43-45), any
\* other text falls out of the else-if chain and parse returns (parser.cpp:515)
ParseNoMatch(qi) ==
    /\ CanEnter
    /\ qi \in StatementsOf("none")
    /\ Enter
    /\ IF Queries[qi] = <<>>
       THEN Finish(qi, "none", "error", "EmptyQuery", 0, <<>>, <<>>, 0, "validate")
       ELSE Finish(qi, "none", "ok", "", 0, <<>>, <<>>, 0, "validate")
    /\ UNCHANGED <<files, allOk>>

\* the text of a statement decides, whatever the tables hold, which branch of
\* parse it takes and what the branch extracts from it
ParsedAs(branch) ==
    [branch |-> branch, insert |-> InsertStatements(branch), select |-> SelectStatements(branch),
     delete |-> DeleteStatements(branch), update |-> UpdateStatements(branch)]

Parsed == ParsedAs(Branch)

Init ==
    /\ parsedQueries = Parsed
    /\ evaluated = NoEvaluation
    /\ racers = NoRacers
    /\ console = NoConsole
    /\ \E rowSeq \in RowSeqs : files = InitFiles(rowSeq)
    /\ tableInfo = [r \in Roots |-> TableInfo]
    /\ op = Idle
    /\ last = NoResult
    /\ pre = files
    /\ stmts = 0
    /\ allOk = TRUE

Next ==
    \/ \E qi \in StatementsOf("insert") : ParseInsert(qi)
    \/ \E qi \in StatementsOf("select") : ParseSelect(qi)
    \/ \E qi \in StatementsOf("delete") : ParseDelete(qi)
    \/ \E qi \in StatementsOf("update") :
          \E order \in Orders(DOMAIN parsedQueries.update[qi].updates) : ParseUpdate(qi, order)
    \/ \E qi \in StatementsOf("none") : ParseNoMatch(qi)
    \/ InsertColumn
    \/ DeleteColumn
    \/ UpdateColumn
    \/ StageFault
    \/ Commit
    \/ CommitFault
    \/ Crash

Spec == Init /\ [][Next]_vars

(***************************************************************************)
(* The condition grammar and the evaluator on their own: a stored value    *)
(* and a WHERE text are drawn, and the text goes the way SELECT sends it   *)
(* (parsed as written) or the way UPDATE and DELETE send it (normalised    *)
(* by parse, then parsed).                                                 *)
(***************************************************************************)
tGe == <<">", "=">>
tLe == <<"<", "=">>
tLt == <<"<">>
tEqEq == <<"=", "=">>
tNe == <<"!", "=">>
kLIKE == <<"L","I","K","E">>
qText(str) == <<"'">> \o str \o <<"'">>

EvalValues ==
    { JInt(10), JInt(9), JInt(5), JInt(2),
      JStr(<<"J","o","h","n">>), JStr(<<"J","o","a","n","n","a">>), JStr(<<"M","i","k","e">>),
      JStr(<<"x">>), JStr(<<"x","*">>), JStr(<<"x","x">>) }

EvalConditions ==
    { Join(<<ColB, tGt, <<"9">> >>), Join(<<ColB, tLt, <<"9">> >>),
      Join(<<ColB, tGe, <<"9">> >>), Join(<<ColB, tLe, <<"9">> >>),
      Join(<<ColB, tGt, <<"1","0">> >>),
      Join(<<ColB, tGe, <<"0","5">> >>), Join(<<ColB, tLe, <<"0","5">> >>),
      Join(<<ColB, tGt, <<"1","0","0","0","0","0","0","0","0","0",
                          "0","0","0","0","0","0","0","0","0","0">> >>),
      Join(<<ColB, tEq, <<"5">> >>), Join(<<ColB, tEqEq, <<"5">> >>),
      Join(<<ColB, tEq, <<"1","0",".","0">> >>), Join(<<ColB, tNe, <<"1","0",".","0">> >>),
      Join(<<ColB, tNe, <<"9">> >>),
      Join(<<ColA, tEq, qX>>), Join(<<ColA, tEqEq, qX>>),
      Join(<<ColA, kLIKE, qText(<<"J","o","%">>)>>),
      Join(<<ColA, toLower(kLIKE), qText(<<"j","_","h","n">>)>>),
      Join(<<ColA, kLIKE, qText(<<"x","*">>)>>) }

\* evaluateCondition returned true
Hit(e) == ~e.threw /\ e.res

\* the row is taken: the text parsed, and evaluateCondition returned true; its
\* throw is caught by every caller and counts as false (parser.cpp:261-264,
\* deleteRow.cpp:109-112, updateRow.cpp:103-107)
Matches(value, condition) == condition.ok /\ Hit(evaluateCondition(value, condition))

EvalResult(stage, value, text, condition) ==
    [stage |-> stage, value |-> value, text |-> text, condition |-> condition,
     threw |-> condition.ok /\ evaluateCondition(value, condition).threw,
     matches |-> Matches(value, condition)]

EvalFrame == UNCHANGED <<files, tableInfo, op, last, pre, stmts, allOk, parsedQueries, racers, console>>

\* parser.cpp:217-265: SELECT hands the WHERE text to parseCondition as written
EvaluateSelect ==
    /\ evaluated.stage = "input"
    /\ evaluated' = EvalResult("select", evaluated.value, evaluated.text,
                               parseCondition(evaluated.text))
    /\ EvalFrame

\* parser.cpp:297-314 and 483-499: DELETE and UPDATE normalise the text first
EvaluateMutating ==
    /\ evaluated.stage = "input"
    /\ evaluated' = EvalResult("mutating", evaluated.value, evaluated.text,
                               parseCondition(NormalizeWhere(evaluated.text)))
    /\ EvalFrame

EvalInit ==
    /\ \E v \in EvalValues, t \in EvalConditions :
          evaluated = [stage |-> "input", value |-> v, text |-> t]
    /\ files = InitFiles(<<>>)
    /\ tableInfo = [r \in Roots |-> TableInfo]
    /\ op = Idle
    /\ last = NoResult
    /\ pre = files
    /\ stmts = 0
    /\ allOk = TRUE
    /\ parsedQueries = <<>>
    /\ racers = NoRacers
    /\ console = NoConsole

EvalNext == EvaluateSelect \/ EvaluateMutating

EvalSpec == EvalInit /\ [][EvalNext]_vars

(***************************************************************************)
(* Two processes on the same table.  Each runs one mutating statement with *)
(* the steps above; op, last and pre are those of the process that is      *)
(* running, racers holds those of the process that is waiting, and the     *)
(* scheduler may switch between any two steps: no operation takes a lock   *)
(* (deleteRow.cpp:126-174, updateRow.cpp:129-178, insert.cpp:82-179).      *)
(***************************************************************************)
Waiting(o, l, b) == [op |-> o, last |-> l, pre |-> b]

\* a variant of Yield under a table lock: a process inside an operation keeps
\* the processor until the operation has returned
Yield_locked ==
    /\ racers # NoRacers
    /\ op.pc = "idle"
    /\ op' = racers.op
    /\ last' = racers.last
    /\ pre' = racers.pre
    /\ racers' = Waiting(op, last, pre)
    /\ UNCHANGED <<files, tableInfo, stmts, allOk, parsedQueries, evaluated, console>>

\* the operating system takes the processor from one process and gives it to
\* the other, between any two steps
Yield ==
    /\ racers # NoRacers
    /\ op' = racers.op
    /\ last' = racers.last
    /\ pre' = racers.pre
    /\ racers' = Waiting(op, last, pre)
    /\ UNCHANGED <<files, tableInfo, stmts, allOk, parsedQueries, evaluated, console>>

\* the running process has not been given its statement yet
NotStarted == last.status = "none"

RaceInit ==
    /\ parsedQueries = Parsed
    /\ evaluated = NoEvaluation
    /\ console = NoConsole
    /\ \E rowSeq \in RowSeqs :
          /\ files = InitFiles(rowSeq)
          /\ racers = Waiting(Idle, NoResult, InitFiles(rowSeq))
    /\ tableInfo = [r \in Roots |-> TableInfo]
    /\ op = Idle
    /\ last = NoResult
    /\ pre = files
    /\ stmts = 0
    /\ allOk = TRUE

RaceNext ==
    \/ NotStarted /\ \E qi \in StatementsOf("insert") : ParseInsert(qi)
    \/ NotStarted /\ \E qi \in StatementsOf("delete") : ParseDelete(qi)
    \/ NotStarted /\ \E qi \in StatementsOf("update") :
          \E order \in Orders(DOMAIN parsedQueries.update[qi].updates) : ParseUpdate(qi, order)
    \/ InsertColumn
    \/ DeleteColumn
    \/ UpdateColumn
    \/ Commit
    \/ Yield

RaceSpec == RaceInit /\ [][RaceNext]_vars

(***************************************************************************)
(* Sessions on a table whose rows satisfy the schema's constraints, as     *)
(* Inserts into an empty table would have left it: column a holds no value *)
(* twice, column b holds no null, every value has its column's type.       *)
(***************************************************************************)
ConstraintStatements == {2, 3, 8, 10, 11, 12, 17, 20, 28, 29}

ConstraintBranch == [qi \in ConstraintStatements |-> Dispatch(Queries[qi])]

\* no two rows agree on the unique column a
ValidRowSeqs == {rowSeq \in RowSeqs : \A i, j \in DOMAIN rowSeq : i # j => rowSeq[i][1] # rowSeq[j][1]}

ConstraintInit ==
    /\ parsedQueries = ParsedAs(ConstraintBranch)
    /\ evaluated = NoEvaluation
    /\ racers = NoRacers
    /\ console = NoConsole
    /\ \E rowSeq \in ValidRowSeqs : files = InitFiles(rowSeq)
    /\ tableInfo = [r \in Roots |-> TableInfo]
    /\ op = Idle
    /\ last = NoResult
    /\ pre = files
    /\ stmts = 0
    /\ allOk = TRUE

ConstraintSpec == ConstraintInit /\ [][Next]_vars

(***************************************************************************)
(* Sessions that enter one statement, again and again.                     *)
(***************************************************************************)
OnlyBranch(qi) == [q \in {qi} |-> Dispatch(Queries[q])]

RepeatInit ==
    /\ \E qi \in ConstraintStatements : parsedQueries = ParsedAs(OnlyBranch(qi))
    /\ evaluated = NoEvaluation
    /\ racers = NoRacers
    /\ console = NoConsole
    /\ \E rowSeq \in RowSeqs : files = InitFiles(rowSeq)
    /\ tableInfo = [r \in Roots |-> TableInfo]
    /\ op = Idle
    /\ last = NoResult
    /\ pre = files
    /\ stmts = 0
    /\ allOk = TRUE

RepeatSpec == RepeatInit /\ [][Next]_vars

(***************************************************************************)
(* CREATE TABLE: CreateTable::createTable (Operations/Creation/            *)
(* createTable.cpp:24-69) on the tree under $HOME, called with the column  *)
(* definitions parse has split (parser.cpp:317-423).  The table may exist  *)
(* already, with rows, or not at all; c is a column the schema {a, b} does *)
(* not have.                                                               *)
(***************************************************************************)
CreateColumns == {ColA, ColB, ColC}
CreatePaths == Roots \X CreateColumns \X Kinds

\* the column definitions a CREATE TABLE statement may list
ColumnDefs ==
    { TableInfo[1], TableInfo[2],
      [name |-> ColC, type |-> <<"I","N","T">>, isUnique |-> FALSE, notNull |-> FALSE] }

\* the lists of definitions, no column twice
DefLists ==
    {defs \in UNION {[1..n -> ColumnDefs] : n \in 1..3} :
        \A i, j \in DOMAIN defs : i # j => defs[i].name # defs[j].name}

\* the tree with table t as InitFiles leaves it, and no file for column c
TreeWith(rowSeq) ==
    [p \in CreatePaths |-> IF p \in Paths THEN InitFiles(rowSeq)[p] ELSE Absent]

\* the tree without table t
EmptyTree == [p \in CreatePaths |-> Absent]

\* createTable.cpp:43-54: a column file that does not exist is created with
\* an empty array; one that exists is left as it is
CreateColumnFiles(fs, root, defs) ==
    [p \in DOMAIN fs |->
        IF /\ p[1] = root /\ p[3] = "final"
           /\ \E i \in DOMAIN defs : defs[i].name = p[2]
           /\ ~fs[p].exists
        THEN FileOf(<<>>)
        ELSE fs[p]]

\* createTable.cpp:40-69: columnInfoJson holds the listed columns only, and
\* as a JSON object it is written with its keys in ascending order
ColumnInfoJson(defs) ==
    CHOOSE info \in [1..Len(defs) -> Range(defs)] :
        \A i, j \in DOMAIN info : i < j => LexLess(info[i].name, info[j].name)

CreateTable ==
    /\ stmts < MaxStmts
    /\ \E defs \in DefLists :
          /\ files' = CreateColumnFiles(files, HomeRoot, defs)
          /\ tableInfo' = [tableInfo EXCEPT ![HomeRoot] = ColumnInfoJson(defs)]
          /\ last' = [NoResult EXCEPT !.stmt = "createTable", !.status = "ok"]
    /\ pre' = files
    /\ stmts' = stmts + 1
    /\ UNCHANGED <<op, allOk, parsedQueries, evaluated, racers, console>>

CreateInit ==
    /\ \/ \E rowSeq \in RowSeqs :
             /\ files = TreeWith(rowSeq)
             /\ tableInfo = [r \in Roots |-> TableInfo]
       \/ /\ files = EmptyTree
          /\ tableInfo = [r \in Roots |-> <<>>]
    /\ op = Idle
    /\ last = NoResult
    /\ pre = files
    /\ stmts = 0
    /\ allOk = TRUE
    /\ parsedQueries = <<>>
    /\ evaluated = NoEvaluation
    /\ racers = NoRacers
    /\ console = NoConsole

CreateNext == CreateTable

CreateSpec == CreateInit /\ [][CreateNext]_vars

(***************************************************************************)
(* The interactive console (main.cpp:9-36) and the current database.       *)
(* A line is the sequence of its tokens; blanks typed behind the last      *)
(* token are tokens of white space.  Process start runs the static         *)
(* initialisers of deleteRow.cpp, updateRow.cpp and createTable.cpp, which *)
(* read crrtdb.txt once; parse reads it again for INSERT and SELECT.       *)
(***************************************************************************)
kCREATE == <<"C","R","E","A","T","E">>
kCHANGE == <<"C","H","A","N","G","E">>
kDATABASE == <<"D","A","T","A","B","A","S","E">>
kTABLE == <<"T","A","B","L","E">>
tExit == <<"e","x","i","t">>
tEXIT == <<"E","X","I","T">>
tBlank == <<" ">>
Db1 == <<"d","1">>
Db2 == <<"d","2">>
\* an empty crrtdb.txt
NoDb == <<>>

\* the line the banner names for leaving the console (main.cpp:11)
ExitHint == <<tExit, tSemi>>

\* the lines a user types
ConsoleLines ==
    { <<tExit>>, <<tEXIT>>, <<tExit, tSemi>>, <<tExit, tBlank>>, <<tBlank>>,
      <<kCHANGE, kDATABASE, Db1, tSemi>>,
      <<kCHANGE, kDATABASE, Db2, tSemi>>,
      <<kCREATE, kDATABASE, Db2, tSemi>>,
      <<kCREATE, kTABLE, tT, tOpen, ColA, <<"T","E","X","T">>, tClose, tSemi>>,
      Queries[1], Queries[12], Queries[10], Queries[8] }

RECURSIVE StripTrailing(_)
\* main.cpp:19-20: while the line ends in white space, pop it
StripTrailing(query) ==
    IF query # <<>> /\ \A i \in DOMAIN query[Len(query)] : IsSpace(query[Len(query)][i])
    THEN StripTrailing(Take(query, Len(query) - 1))
    ELSE query

\* createDbRegex and changeDbRegex (parser.cpp:52-60): verb DATABASE name ;
MatchDatabase(q, verb) ==
    /\ Len(q) = 4
    /\ IsKw(q[1], verb) /\ IsKw(q[2], kDATABASE)
    /\ IsIdent(q[3], FALSE)
    /\ q[4] = tSemi

\* createTableRegex (parser.cpp:88-91): CREATE TABLE name ( .+ ) ;
MatchCreateTable(q) ==
    /\ Len(q) >= 7
    /\ IsKw(q[1], kCREATE) /\ IsKw(q[2], kTABLE)
    /\ IsIdent(q[3], TRUE)
    /\ q[4] = tOpen /\ q[Len(q) - 1] = tClose /\ q[Len(q)] = tSemi

\* the if / else-if chain of parse with its creation and database branches
\* (parser.cpp:107, 165, 289, 317, 424, 427, 511)
ConsoleDispatch(q) ==
    IF MatchInsert(q).ok THEN "insert"
    ELSE IF MatchSelect(q).ok THEN "select"
    ELSE IF MatchDelete(q).ok THEN "delete"
    ELSE IF MatchCreateTable(q) THEN "createTable"
    ELSE IF MatchDatabase(q, kCREATE) THEN "createDb"
    ELSE IF MatchUpdate(q).ok THEN "update"
    ELSE IF MatchDatabase(q, kCHANGE) THEN "changeDb"
    ELSE "none"

\* the tree and the database a statement builds its basePath from: INSERT
\* and SELECT are handed CurrentDB::getCurrentDB() at the call (parser.cpp:164,
\* 273), DELETE, UPDATE and CREATE TABLE use the static currentDatabase of
\* their file (deleteRow.cpp:16 and 62, updateRow.cpp:15 and 34,
\* createTable.cpp:14 and 34)
BasePath(c, kind) ==
    [root |-> IF kind \in {"select", "update"} THEN CwdRoot ELSE HomeRoot,
     database |-> IF kind \in {"insert", "select"} THEN c.crrtdb ELSE c.currentDatabase]

\* the directory createTable's create_directories makes under databases/:
\* with an empty database name the path is databases/<table>
CreatedDirectory(database, table) == IF database = NoDb THEN table ELSE database

\* what parse(query) does to the console's world: the statement's kind, the
\* database it worked on, and how it ended; selected remembers the database
\* of the session's last successful CHANGE DATABASE or CREATE DATABASE
Execute(c, q, kind, at) ==
    IF kind = "none"
    THEN [c EXCEPT !.stmt = kind, !.status = "ok", !.err = ""]
    ELSE IF kind = "changeDb"
    THEN (IF q[3] \notin c.databases
          THEN [c EXCEPT !.stmt = kind, !.status = "error", !.err = "DatabaseNotFound"]
          ELSE [c EXCEPT !.stmt = kind, !.status = "ok", !.err = "", !.crrtdb = q[3],
                         !.selected = q[3]])
    ELSE IF kind = "createDb"
    THEN (IF q[3] \in c.databases
          THEN [c EXCEPT !.stmt = kind, !.status = "error", !.err = "DatabaseExists"]
          ELSE [c EXCEPT !.stmt = kind, !.status = "ok", !.err = "", !.crrtdb = q[3],
                         !.selected = q[3], !.databases = @ \cup {q[3]}])
    ELSE IF kind = "createTable"
    THEN [c EXCEPT !.stmt = kind, !.status = "ok", !.err = "", !.on = at,
                   !.databases = @ \cup {CreatedDirectory(at.database, q[3])},
                   !.tables = @ \cup {<<at.root, at.database>>}]
    ELSE IF kind = "update" /\ c.currentDatabase = NoDb
    THEN [c EXCEPT !.stmt = kind, !.status = "error", !.err = "NoDatabaseSelected", !.on = at]
    ELSE IF <<at.root, at.database>> \notin c.tables
    THEN [c EXCEPT !.stmt = kind, !.status = "error", !.err = "TableNotFound", !.on = at]
    ELSE [c EXCEPT !.stmt = kind, !.status = "ok", !.err = "", !.on = at]

\* the branch parse takes for each line the console can be given, stripped
StrippedLines == {StripTrailing(line) : line \in ConsoleLines}

LineKind == [q \in StrippedLines |-> ConsoleDispatch(q)]

\* main.cpp:17: the prompt is shown and the stream can still deliver a line;
\* lines read so far are capped
CanRead == console.pc = "prompt" /\ ~console.eof /\ console.lines < MaxLines

\* main.cpp:17, 22-23: a line that is empty after stripping is skipped; a line
\* that ends with the stream instead of a newline leaves the stream at its end
SkipEmpty ==
    /\ CanRead
    /\ \E line \in ConsoleLines, ends \in BOOLEAN :
          /\ StripTrailing(line) = <<>>
          /\ console' = [console EXCEPT !.query = <<>>, !.lines = @ + 1,
                                        !.eof = ends, !.pc = "top"]
    /\ UNCHANGED <<files, tableInfo, op, last, pre, stmts, allOk, parsedQueries, evaluated, racers>>

\* main.cpp:25-28: the line exit or EXIT leaves the loop
Exit ==
    /\ CanRead
    /\ \E line \in ConsoleLines, ends \in BOOLEAN :
          /\ StripTrailing(line) \in {<<tExit>>, <<tEXIT>>}
          /\ console' = [console EXCEPT !.query = StripTrailing(line), !.lines = @ + 1,
                                        !.eof = ends, !.pc = "exited"]
    /\ UNCHANGED <<files, tableInfo, op, last, pre, stmts, allOk, parsedQueries, evaluated, racers>>

\* main.cpp:30-34: every other line is handed to parse, whose exception is
\* printed; the loop goes on
ParseLine ==
    /\ CanRead
    /\ \E line \in ConsoleLines, ends \in BOOLEAN :
          /\ StripTrailing(line) \notin {<<>>, <<tExit>>, <<tEXIT>>}
          /\ console' = Execute([console EXCEPT !.query = StripTrailing(line), !.lines = @ + 1,
                                                !.eof = ends, !.pc = "top"],
                                StripTrailing(line), LineKind[StripTrailing(line)],
                                BasePath(console, LineKind[StripTrailing(line)]))
    /\ UNCHANGED <<files, tableInfo, op, last, pre, stmts, allOk, parsedQueries, evaluated, racers>>

\* main.cpp:17, 22-23: the stream is at its end and holds no further
\* character: getline empties query and fails, the result of the read is not
\* tested, and the empty query is skipped
EndOfInput ==
    /\ console.pc = "prompt" /\ ~console.eof
    /\ console' = [console EXCEPT !.query = <<>>, !.eof = TRUE, !.pc = "top"]
    /\ UNCHANGED <<files, tableInfo, op, last, pre, stmts, allOk, parsedQueries, evaluated, racers>>

\* main.cpp:17-34: a read from a stream that has ended fails and leaves query
\* as it was: an empty query is skipped, any other, the last line, which no
\* newline ended, is handed to parse once more (it is not exit, which left
\* the loop)
FailedRead ==
    /\ console.pc = "prompt" /\ console.eof
    /\ console' = IF console.query = <<>>
                  THEN [console EXCEPT !.pc = "top"]
                  ELSE Execute([console EXCEPT !.pc = "top"], console.query,
                               LineKind[console.query],
                               BasePath(console, LineKind[console.query]))
    /\ UNCHANGED <<files, tableInfo, op, last, pre, stmts, allOk, parsedQueries, evaluated, racers>>

\* main.cpp:15-16: the next pass of while (true) prints the prompt
Prompt ==
    /\ console.pc = "top"
    /\ console' = [console EXCEPT !.pc = "prompt"]
    /\ UNCHANGED <<files, tableInfo, op, last, pre, stmts, allOk, parsedQueries, evaluated, racers>>

\* the process has started, the banner is printed and the prompt is shown:
\* the statics hold what crrtdb.txt held; table t exists in every database
ConsoleInit ==
    /\ \E db \in {NoDb, Db1}, dbs \in {{Db1}, {Db1, Db2}} :
          console = [pc |-> "prompt", hint |-> ExitHint, query |-> <<>>, lines |-> 0,
                     eof |-> FALSE,
                     crrtdb |-> db, currentDatabase |-> db, selected |-> NoDb,
                     databases |-> dbs, tables |-> Roots \X dbs,
                     stmt |-> "none", status |-> "none", err |-> "",
                     on |-> [root |-> HomeRoot, database |-> db]]
    /\ files = InitFiles(<<>>)
    /\ tableInfo = [r \in Roots |-> TableInfo]
    /\ op = Idle
    /\ last = NoResult
    /\ pre = files
    /\ stmts = 0
    /\ allOk = TRUE
    /\ parsedQueries = <<>>
    /\ evaluated = NoEvaluation
    /\ racers = NoRacers

ConsoleNext == SkipEmpty \/ Exit \/ ParseLine \/ EndOfInput \/ FailedRead \/ Prompt

ConsoleSpec == ConsoleInit /\ [][ConsoleNext]_vars

\* the interactive loop is the one thread of the process: a failed read
\* returns at once and the prompt is printed without waiting, so these steps
\* are taken whenever they can be; a line arrives, or the stream ends, when
\* the environment decides
ConsoleLiveSpec == ConsoleSpec /\ WF_vars(FailedRead) /\ WF_vars(Prompt)

(***************************************************************************)
(* Properties.                                                             *)
(***************************************************************************)
FinalPaths == {p \in Paths : p[3] = "final"}

\* every column file holds what it held when the last statement began
FinalsUnchanged == \A p \in FinalPaths : files[p] = pre[p]

\* the last statement returned or threw to its caller (the process lived on)
Returned == last.status \in {"ok", "error"}

ColumnData(fs, root, col) == fs[FinalPath(root, col)].data

\* C1: whenever INSERT has failed, for whatever reason and in whatever phase,
\* every column file holds exactly what it held before the statement
C1_InsertAtomicity ==
    (last.stmt = "insert" /\ last.status = "error") => FinalsUnchanged

\* an INSERT that staged both columns and then failed in its commit loop
C1_Witness ==
    /\ last.stmt = "insert" /\ last.status = "error"
    /\ last.phase = "commit" /\ Len(last.staged) = 2

\* C2: as long as no Insert, Update or Delete has failed or crashed, and none
\* is under way, the column files of the table have one length
C2_SchemaSize ==
    (allOk /\ op.pc = "idle") =>
        \A c, d \in Range(SchemaColumns(tableInfo[HomeRoot])) :
            Len(ColumnData(files, HomeRoot, c)) = Len(ColumnData(files, HomeRoot, d))

\* a DELETE that removed rows from both columns and returned
C2_Witness ==
    /\ allOk /\ op.pc = "idle"
    /\ last.stmt = "delete" /\ last.status = "ok" /\ last.renamed = 2
    /\ Len(ColumnData(files, HomeRoot, ColA)) < Len(ColumnData(pre, HomeRoot, ColA))
    /\ Len(ColumnData(files, HomeRoot, ColA)) > 0

\* C3: when UPDATE or DELETE has returned, every column it staged holds the
\* array staged for it; when it has thrown, every column file holds what it
\* held before the statement
C3_AllOrNothing ==
    (last.stmt \in {"update", "delete"} /\ Returned) =>
        IF last.status = "ok"
        THEN \A i \in DOMAIN last.staged : files[last.staged[i][2]] = FileOf(last.staged[i][3])
        ELSE FinalsUnchanged

\* C4: while a mutating operation stages, and after a crash before its first
\* rename, every column file holds what it held before the statement; a crash
\* leaves column files changed only when it falls between two renames
C4_StagingKeepsFinals ==
    /\ op.pc = "stage" => FinalsUnchanged
    /\ (last.status = "crashed" /\ (last.phase = "stage" \/ last.renamed = 0)) => FinalsUnchanged
    /\ (last.status = "crashed" /\ ~FinalsUnchanged) =>
          (last.phase = "commit" /\ 0 < last.renamed /\ last.renamed < Len(last.staged))

\* a crash after both columns were staged and before the first rename
C4_Witness ==
    /\ last.status = "crashed" /\ last.phase = "commit" /\ last.renamed = 0
    /\ Len(last.staged) = 2
    /\ \A i \in DOMAIN last.staged : Exists(files, last.staged[i][1])

NoWhere(q) == \A i \in DOMAIN q : ~IsKw(q[i], kWHERE)

\* C5: a DELETE FROM <table>; without WHERE ends with the error UnsafeDelete,
\* and with every file and both schemas as they were
C5_DeleteSafety ==
    (last.stmt = "delete" /\ NoWhere(Queries[last.q])) =>
        /\ last.status = "error" /\ last.err = "UnsafeDelete"
        /\ files = pre
        /\ tableInfo = [r \in Roots |-> TableInfo]

\* DELETE FROM t; was refused on a table that holds rows
C5_Witness ==
    /\ last.stmt = "delete" /\ last.q = 7 /\ last.err = "UnsafeDelete"
    /\ Len(ColumnData(files, HomeRoot, ColA)) > 0

Count(arr, v) == Cardinality({i \in DOMAIN arr : JsonEq(arr[i], v)})

\* C6: when INSERT INTO t(a, b) VALUES('x', 5) has returned on a table whose
\* unique column a held 'x' at most once, a holds 'x' exactly once; when 'x' was
\* there, the statement failed with DuplicateValue and the row count is unchanged
C6_Uniqueness ==
    (last.stmt = "insert" /\ last.q = 1 /\ Returned
       /\ Count(ColumnData(pre, HomeRoot, ColA), JStr(<<"x">>)) <= 1) =>
        /\ Count(ColumnData(files, HomeRoot, ColA), JStr(<<"x">>)) = 1
        /\ Count(ColumnData(pre, HomeRoot, ColA), JStr(<<"x">>)) = 1 =>
              /\ last.status = "error" /\ last.err = "DuplicateValue"
              /\ Len(ColumnData(files, HomeRoot, ColA)) = Len(ColumnData(pre, HomeRoot, ColA))

\* C7: once INSERT INTO t(a, b) VALUES('x', 5) has returned on the empty
\* table, SELECT * FROM t WHERE a = 'x' returns the one row {a: 'x', b: 5}
C7_RoundTrip ==
    (last.stmt = "insert" /\ last.q = 1 /\ Returned
       /\ \A p \in FinalPaths : pre[p].data = <<>>) =>
        SelectResults(SelectArgs(12)) = {<<[c \in {ColA, ColB} |->
                                             IF c = ColA THEN JStr(<<"x">>) ELSE JInt(5)]>>}

\* the value of the WHERE column in the row satisfies the condition
RowSatisfies(a, rowIdx) ==
    evaluateCondition(Elem(ColumnData(files, CwdRoot, a.condition.column), rowIdx), a.condition)
        = [threw |-> FALSE, res |-> TRUE]

\* the rows of rowIndices that satisfy the WHERE condition, all without one
Satisfying(a, rowIndices) ==
    LET Test(rowIdx) == ~a.hasWhere \/ RowSatisfies(a, rowIdx)
    IN  SelectSeq(rowIndices, Test)

\* positions offset .. offset + limit - 1 (counted from 0) of a sequence
Page(seq, a) ==
    SubSeq(seq, a.offset + 1,
           IF a.hasLimit /\ a.offset + a.limit < Len(seq) THEN a.offset + a.limit ELSE Len(seq))

\* C8: a SELECT with a WHERE clause and no ORDER BY, LIMIT or OFFSET returns
\* the rows whose value in the WHERE column satisfies the condition, in table
\* order, each projected onto the selected columns
C8_PredicateSeesRow ==
    (last.stmt = "select" /\ last.status = "ok"
       /\ SelectArgs(last.q).hasWhere /\ SelectArgs(last.q).orderByColumn = <<>>
       /\ ~SelectArgs(last.q).hasLimit /\ SelectArgs(last.q).offset = 0) =>
        \E rowIndices \in RowOrders(SelectArgs(last.q)) :
            last.rows = ResultRows(SelectArgs(last.q), Satisfying(SelectArgs(last.q), rowIndices))

\* C9: an UPDATE with WHERE that returns reports the number of rows whose
\* value in the condition column satisfies the condition; a SET column that
\* already holds the new value in all of those rows is not staged and keeps its file
C9_UpdateCounting ==
    (last.stmt = "update" /\ last.status = "ok"
       /\ parsedQueries.update[last.q].whereText # <<>>) =>
        LET u == parsedQueries.update[last.q]
            data == ColumnData(pre, CwdRoot, u.condition.column)
            hits == {i \in DOMAIN data :
                        evaluateCondition(data[i], u.condition) = [threw |-> FALSE, res |-> TRUE]}
        IN  /\ last.count = Cardinality(hits)
            /\ \A c \in DOMAIN u.updates :
                 (\A i \in hits : i \in DOMAIN ColumnData(pre, CwdRoot, c)
                                   => JsonEq(ColumnData(pre, CwdRoot, c)[i], u.updates[c].v))
                 => /\ files[FinalPath(CwdRoot, c)] = pre[FinalPath(CwdRoot, c)]
                    /\ \A j \in DOMAIN last.staged : last.staged[j][2] # FinalPath(CwdRoot, c)

\* UPDATE t SET a = 'y', b = 1 WHERE b > 3 counted a row whose a was 'y'
\* already: only b was staged
C9_Witness ==
    /\ last.stmt = "update" /\ last.status = "ok" /\ last.q = 11
    /\ last.count > 0 /\ Len(last.staged) = 1
    /\ last.staged[1][2] = FinalPath(CwdRoot, ColB)

\* C10: a SELECT with LIMIT n and OFFSET m (0 without the clause) returns the
\* rows at positions m .. m+n-1 of the rows that satisfy its WHERE condition,
\* taken in output order; fewer when there are fewer, none when n = 0
C10_Pagination ==
    (last.stmt = "select" /\ last.status = "ok" /\ SelectArgs(last.q).hasLimit) =>
        \E rowIndices \in RowOrders(SelectArgs(last.q)) :
            last.rows = ResultRows(SelectArgs(last.q),
                                   Page(Satisfying(SelectArgs(last.q), rowIndices),
                                        SelectArgs(last.q)))

\* the sorted order of the row indices in which rows with equal keys keep
\* their stored order
StableOrder(a) ==
    LET key == files[FinalPath(CwdRoot, a.orderByColumn)].data
    IN  CHOOSE o \in RowOrders(a) :
            \A i, j \in DOMAIN o :
                (i < j /\ ~JsonLess(Elem(key, o[i]), Elem(key, o[j]))
                       /\ ~JsonLess(Elem(key, o[j]), Elem(key, o[i]))) => o[i] < o[j]

\* C11 (ordering stability): a SELECT with ORDER BY returns its rows sorted by
\* the column, ascending or descending as asked, and rows with equal keys in
\* their stored order.
C11_OrderingStability ==
    (last.stmt = "select" /\ last.status = "ok"
       /\ SelectArgs(last.q).orderByColumn # <<>>) =>
        last.rows = ResultRows(SelectArgs(last.q),
                               SelectedIndices(SelectArgs(last.q), StableOrder(SelectArgs(last.q))))

\* C15 (unmatched input): a non-empty input that has the shape of no
\* statement makes parse fail with StatementSyntaxError; parse never returns
\* normally without having dispatched a statement.
C15_UnmatchedInputFails ==
    (Returned /\ last.q \in DOMAIN Queries /\ last.stmt = "none" /\ Queries[last.q] # <<>>) =>
        (last.status = "error" /\ last.err = "StatementSyntaxError")

\* C16 (rollback completeness): when a mutating operation raises after it
\* has staged at least one column, also while it stages a later column, none
\* of the temporary files it staged remains.
C16_RollbackComplete ==
    (last.status = "error" /\ last.stmt \in {"insert", "delete", "update"}
       /\ Len(last.staged) >= 1) =>
        \A j \in DOMAIN last.staged : ~Exists(files, last.staged[j][1])

\* the schema and constraint errors of Insert
InsertConstraintErrors ==
    {"LengthMismatch", "TooManyColumns", "UnknownColumn", "TypeMismatch",
     "DuplicateValue", "NotNullViolation"}

\* every temporary file is as it was when the statement began
NoTempWritten(fs, before) == \A p \in Paths : p[3] = "tmp" => fs[p] = before[p]

C18_SchemaReadOnly == [][tableInfo' = tableInfo]_vars

\* a DELETE succeeded and changed column files, and the schema document is
\* the one the table was created with
C18_Witness ==
    /\ last.stmt = "delete" /\ last.status = "ok" /\ files # pre
    /\ tableInfo = [r \in Roots |-> TableInfo]

\* the Insert's lists pass every check against the table as it was: the list
\* checks, and for every schema column the type, uniqueness and not-null checks
ValidInsert(a, before) ==
    /\ a.ok /\ TableExists(a.table)
    /\ InsertValidation(tableInfo[HomeRoot], a.columns, a.values) = ""
    /\ \A c \in Range(SchemaColumns(tableInfo[HomeRoot])) :
         /\ before[FinalPath(HomeRoot, c)].exists
         /\ InsertColumnResult(InfoOf(tableInfo[HomeRoot], c), ColumnData(before, HomeRoot, c),
                               a.columns, a.values).err = ""

\* C20 (valid Insert): an Insert whose lists pass every check, with no I/O
\* fault, succeeds and leaves every schema column one entry longer: the
\* supplied value, or null for an omitted nullable column, after the earlier
\* entries in their positions.
C20_ValidInsertAppends ==
    (last.stmt = "insert" /\ last.status \in {"ok", "error"}
       /\ ValidInsert(parsedQueries.insert[last.q], pre)) =>
        /\ last.status = "ok"
        /\ \A c \in Range(SchemaColumns(tableInfo[HomeRoot])) :
             ColumnData(files, HomeRoot, c)
               = InsertColumnResult(InfoOf(tableInfo[HomeRoot], c), ColumnData(pre, HomeRoot, c),
                                    parsedQueries.insert[last.q].columns,
                                    parsedQueries.insert[last.q].values).data

\* every column file of the table is present and all hold the same number of entries
EqualLengths(fs, root) ==
    \A c, d \in Range(SchemaColumns(tableInfo[root])) :
        /\ fs[FinalPath(root, c)].exists
        /\ Len(ColumnData(fs, root, c)) = Len(ColumnData(fs, root, d))

\* the positions of the condition column whose value satisfies the condition
Hits(fs, root, condition) ==
    {i \in DOMAIN ColumnData(fs, root, condition.column) :
        Matches(ColumnData(fs, root, condition.column)[i], condition)}

RECURSIVE Without(_, _, _)
\* the sequence from position i on, without the positions in hits
Without(arr, hits, i) ==
    IF i > Len(arr) THEN <<>>
    ELSE (IF i \in hits THEN <<>> ELSE <<arr[i]>>) \o Without(arr, hits, i + 1)

\* C21 (Delete removes whole rows): after a successful Delete on a table with
\* columns of equal length, every schema column is its previous sequence
\* without exactly the positions whose condition-column value matched; the
\* surviving rows keep their order and their values in every column.
C21_DeleteWholeRows ==
    (last.stmt = "delete" /\ last.status = "ok" /\ EqualLengths(pre, HomeRoot)) =>
        \A c \in Range(SchemaColumns(tableInfo[HomeRoot])) :
            ColumnData(files, HomeRoot, c)
              = Without(ColumnData(pre, HomeRoot, c),
                        Hits(pre, HomeRoot, parsedQueries.delete[last.q].condition), 1)

\* a DELETE removed a row and left another one in place
C21_Witness ==
    /\ last.stmt = "delete" /\ last.status = "ok" /\ EqualLengths(pre, HomeRoot)
    /\ Len(ColumnData(files, HomeRoot, ColA)) = 1
    /\ Len(ColumnData(pre, HomeRoot, ColA)) = 2
    /\ ColumnData(files, HomeRoot, ColB) = <<ColumnData(pre, HomeRoot, ColB)[2]>>

\* C22 (Delete without a match): a Delete whose condition no row satisfies
\* returns without error, creates no temporary file and leaves every column
\* file unchanged.
C22_DeleteNoMatch ==
    (last.stmt = "delete" /\ last.status \in {"ok", "error"}
       /\ DeleteValidation(parsedQueries.delete[last.q], tableInfo[HomeRoot], pre) = ""
       /\ Hits(pre, HomeRoot, parsedQueries.delete[last.q].condition) = {}) =>
        (last.status = "ok" /\ last.staged = <<>> /\ files = pre)

\* DELETE FROM t WHERE a = 'x' returned on a table that holds rows, none with a = 'x'
C22_Witness ==
    /\ last.stmt = "delete" /\ last.status = "ok"
    /\ ColumnData(pre, HomeRoot, ColA) # <<>>
    /\ Hits(pre, HomeRoot, parsedQueries.delete[last.q].condition) = {}
    /\ files = pre

\* the declared type family takes the value: int/integer integers,
\* float/double/real integers and floats, bool/boolean booleans, any other
\* declared type strings
FamilyAccepts(type, v) ==
    LET family == toLower(type)
    IN  IF family \in {<<"i","n","t">>, <<"i","n","t","e","g","e","r">>} THEN v.t = "int"
        ELSE IF family \in {<<"f","l","o","a","t">>, <<"d","o","u","b","l","e">>, <<"r","e","a","l">>}
        THEN v.t \in {"int", "float"}
        ELSE IF family \in {<<"b","o","o","l">>, <<"b","o","o","l","e","a","n">>} THEN v.t = "bool"
        ELSE v.t = "str"

\* the statement reached the per-column checks of Insert
InsertChecked ==
    /\ last.stmt = "insert" /\ last.status \in {"ok", "error"}
    /\ parsedQueries.insert[last.q].ok
    /\ TableExists(parsedQueries.insert[last.q].table)
    /\ InsertValidation(tableInfo[HomeRoot], parsedQueries.insert[last.q].columns,
                        parsedQueries.insert[last.q].values) = ""

\* the value supplied for the column, the first when it is named twice
Supplied(a, name) == a.values[CHOOSE i \in DOMAIN a.columns :
                                 a.columns[i] = name /\ \A j \in 1..(i - 1) : a.columns[j] # name]

\* the value supplied for the schema column disagrees with its declared type
Disagrees(a, colInfo) ==
    /\ colInfo.name \in Range(a.columns)
    /\ ~FamilyAccepts(colInfo.type, Supplied(a, colInfo.name))

\* the schema column raises no other error: absent and nullable, or supplied
\* with a value its type takes (or null) that a unique column does not hold yet
Passes(a, colInfo, data) ==
    IF colInfo.name \notin Range(a.columns) THEN ~colInfo.notNull
    ELSE /\ Supplied(a, colInfo.name).t = "null" \/ FamilyAccepts(colInfo.type, Supplied(a, colInfo.name))
         /\ ~(colInfo.isUnique /\ Occurs(data, Supplied(a, colInfo.name)))

\* C23 as stated (Insert type check): Insert fails with TypeMismatch exactly
\* when the value of some supplied column disagrees with the column's declared
\* type family, and then the table is unchanged.
C23_TypeCheckAsStated ==
    InsertChecked =>
        /\ last.err = "TypeMismatch"
             <=> \E k \in DOMAIN tableInfo[HomeRoot] :
                    Disagrees(parsedQueries.insert[last.q], tableInfo[HomeRoot][k])
        /\ last.err = "TypeMismatch" => FinalsUnchanged

\* C23 as amended: Insert fails with TypeMismatch exactly when, in schema
\* order, the first column that fails a check is a supplied column whose
\* non-null value disagrees with its declared type family; a null passes the
\* type check of every type; on TypeMismatch the table is unchanged.
C23_TypeCheck ==
    InsertChecked =>
        /\ last.err = "TypeMismatch"
             <=> \E k \in DOMAIN tableInfo[HomeRoot] :
                    /\ Disagrees(parsedQueries.insert[last.q], tableInfo[HomeRoot][k])
                    /\ Supplied(parsedQueries.insert[last.q], tableInfo[HomeRoot][k].name).t # "null"
                    /\ \A j \in 1..(k - 1) :
                         Passes(parsedQueries.insert[last.q], tableInfo[HomeRoot][j],
                                ColumnData(pre, HomeRoot, tableInfo[HomeRoot][j].name))
        /\ last.err = "TypeMismatch" => FinalsUnchanged

\* INSERT INTO t(a, b) VALUES('y', 'x') went past column a and failed on the
\* text supplied for the INT column b
C23_Witness ==
    /\ InsertChecked /\ last.q = 6 /\ last.err = "TypeMismatch"
    /\ Len(last.staged) = 1 /\ FinalsUnchanged

\* the positions an UPDATE marks: those whose condition-column value satisfies
\* the WHERE condition, every position when there is no WHERE
Affected(u, before) ==
    IF u.whereText = <<>> THEN Nat ELSE Hits(before, CwdRoot, u.condition)

\* C24 (Update frame): a successful Update changes only cells of columns
\* named in SET at rows marked affected; every other column, every unaffected
\* row and the length of every column are unchanged.
C24_UpdateFrame ==
    (last.stmt = "update" /\ last.status = "ok") =>
        /\ \A c \in Range(SchemaColumns(tableInfo[CwdRoot])) :
             /\ Len(ColumnData(files, CwdRoot, c)) = Len(ColumnData(pre, CwdRoot, c))
             /\ \A i \in DOMAIN ColumnData(pre, CwdRoot, c) :
                  ColumnData(files, CwdRoot, c)[i] # ColumnData(pre, CwdRoot, c)[i]
                    => /\ c \in DOMAIN parsedQueries.update[last.q].updates
                       /\ i \in Affected(parsedQueries.update[last.q], pre)
                       /\ ColumnData(files, CwdRoot, c)[i] = parsedQueries.update[last.q].updates[c].v
        /\ \A c \in Range(SchemaColumns(tableInfo[HomeRoot])) :
             files[FinalPath(HomeRoot, c)] = pre[FinalPath(HomeRoot, c)]

\* UPDATE t SET b = 5 WHERE a = 'x' changed b in the row with a = 'x' and left
\* the row with a = 'y' as it was
C24_Witness ==
    /\ last.stmt = "update" /\ last.status = "ok" /\ last.q = 10
    /\ Len(ColumnData(pre, CwdRoot, ColA)) = 2 /\ Len(ColumnData(pre, CwdRoot, ColB)) = 2
    /\ ColumnData(pre, CwdRoot, ColA)[2] = JStr(<<"y">>)
    /\ ColumnData(files, CwdRoot, ColB)[1] # ColumnData(pre, CwdRoot, ColB)[1]
    /\ ColumnData(files, CwdRoot, ColB)[2] = ColumnData(pre, CwdRoot, ColB)[2]

\* the direction the statement asks for: descending when the keyword after
\* the ORDER BY column is DESC in any letter case, ascending otherwise
AsksAscending(qi) == ~IsKw(parsedQueries.select[qi].tail.order, kDESC)

\* C26 (keyword case in ORDER BY): ORDER BY <col> followed by DESC in any
\* letter case returns the rows in descending order; with ASC or no keyword
\* they come in ascending order.
C26_OrderKeywordCase ==
    (last.stmt = "select" /\ last.status = "ok"
       /\ SelectArgs(last.q).orderByColumn # <<>>) =>
        last.rows \in SelectResults([SelectArgs(last.q) EXCEPT !.ascending = AsksAscending(last.q)])

\* the column names a SELECT refers to, as the statement writes them
NamesColumn(info, name) == \E i \in DOMAIN info : info[i].name = name
NamesColumnAnyCase(info, name) == \E i \in DOMAIN info : toLower(info[i].name) = toLower(name)

\* the statement refers to a column the schema does not have: in its
\* projection or ORDER BY by the exact name, in its WHERE up to letter case
RefersOutsideSchema(a, info) ==
    \/ \E i \in DOMAIN a.columns : ~NamesColumn(info, a.columns[i])
    \/ a.orderByColumn # <<>> /\ ~NamesColumn(info, a.orderByColumn)
    \/ a.hasWhere /\ ~NamesColumnAnyCase(info, parsedQueries.select[last.q].parsed.column)

\* C27 (select column validation): a SELECT on an existing table with a
\* well-formed WHERE whose projection, ORDER BY column or WHERE column is not
\* a column of the schema fails with ColumnNotFound and returns no row; a
\* WHERE column written in another letter case selects by the schema's column.
C27_SelectColumnValidation ==
    (last.stmt = "select" /\ TableExists(SelectArgs(last.q).table)
       /\ (SelectArgs(last.q).hasWhere => parsedQueries.select[last.q].parsed.ok)) =>
        /\ RefersOutsideSchema(SelectArgs(last.q), tableInfo[CwdRoot]) =>
             (last.status = "error" /\ last.err = "ColumnNotFound" /\ last.rows = <<>>)
        /\ (last.status = "ok" /\ SelectArgs(last.q).hasWhere) =>
             /\ NamesColumn(tableInfo[CwdRoot], SelectArgs(last.q).condition.column)
             /\ \A i \in DOMAIN last.rows :
                  SelectArgs(last.q).condition.column \in DOMAIN last.rows[i] =>
                    Matches(last.rows[i][SelectArgs(last.q).condition.column],
                            SelectArgs(last.q).condition)

\* the literal texts of an INSERT's VALUES list or of an UPDATE's SET items
LiteralTexts(qi) ==
    IF qi \in StatementsOf("insert")
    THEN Range(SplitComma(MatchInsert(Queries[qi]).values, <<>>))
    ELSE {SetValue(parsedQueries.update[qi].items[i]) :
            i \in {j \in DOMAIN parsedQueries.update[qi].items :
                     FirstEq(parsedQueries.update[qi].items[j]) # 0}}

\* the text matches ^-?\d+$ and its value lies in the signed 64-bit range
Int64Literal(text) ==
    /\ IsIntText(text)
    /\ ~DigitsExceed(Unsigned(text), IF Negative(text) THEN Int64MinDigits ELSE Int64MaxDigits)

\* the JSON value is the integer the literal text denotes
HoldsInteger(v, text) ==
    /\ v.t = "int"
    /\ (v.n < 0) = (Negative(text) /\ v.n # 0)
    /\ DigitsOf(IF v.n < 0 THEN 0 - v.n ELSE v.n) = StripLeadingZeros(Unsigned(text))

\* C28 (integer literals are 64-bit): an INSERT or UPDATE whose integer
\* literals all lie in the signed 64-bit range does not fail because of a
\* literal's magnitude, and a successful UPDATE stores at the rows it marks
\* exactly the integer its literal denotes.
C28_Int64Literals ==
    (last.stmt \in {"insert", "update"} /\ last.status \in {"ok", "error"}) =>
        /\ (\A text \in LiteralTexts(last.q) : IsIntText(text) => Int64Literal(text))
             => last.err # "OutOfRange"
        /\ (last.stmt = "update" /\ last.status = "ok") =>
             \A i \in DOMAIN parsedQueries.update[last.q].items :
                LET item == parsedQueries.update[last.q].items[i]
                    data == ColumnData(files, CwdRoot, SetColumn(item))
                IN  Int64Literal(SetValue(item)) =>
                      \A r \in DOMAIN data :
                         r \in Affected(parsedQueries.update[last.q], pre) =>
                            HoldsInteger(data[r], SetValue(item))

\* C31 (one storage location per table): Insert, Select, Update and Delete
\* work on the same column files, so between two statements the columns
\* Select and Update read hold what Insert and Delete left behind.
C31_OneStorageLocation ==
    (op.pc = "idle" /\ last.status = "ok") =>
        \A c \in Range(SchemaColumns(TableInfo)) :
            files[FinalPath(CwdRoot, c)] = files[FinalPath(HomeRoot, c)]

(***************************************************************************)
(* The evaluator's contracts, stated over the outcomes of EvalSpec.        *)
(***************************************************************************)
Evaluated == evaluated.stage \in {"select", "mutating"} /\ evaluated.condition.ok

RECURSIVE Wildcard(_, _)
\* the wildcard reading of a LIKE pattern: '%' any sequence, '_' one
\* character, every other character itself, letters without regard to case
Wildcard(pattern, str) ==
    IF pattern = <<>> THEN str = <<>>
    ELSE IF Head(pattern) = "%"
    THEN Wildcard(Tail(pattern), str) \/ (str # <<>> /\ Wildcard(pattern, Tail(str)))
    ELSE /\ str # <<>>
         /\ Head(pattern) = "_" \/ tolower(Head(pattern)) = tolower(Head(str))
         /\ Wildcard(Tail(pattern), Tail(str))

\* C12 (LIKE translation): a LIKE condition takes a stored value exactly when
\* the whole canonical text matches the pattern read as wildcards, where '%'
\* is any sequence, '_' one character and every other character, '*'
\* included, stands for itself.
C12_LikeTranslation ==
    (Evaluated /\ toLower(evaluated.condition.op) = likeWord)
        => (evaluated.matches
              <=> Wildcard(stripQuotes(evaluated.condition.value),
                           fieldValueOf(evaluated.value)))

\* the integer n against the unsigned numeral ds, by value
IntBelow(n, ds) == n < 0 \/ DigitsExceed(ds, DigitsOf(n))
IntAbove(n, ds) == n >= 0 /\ DigitsExceed(DigitsOf(n), StripLeadingZeros(ds))

NumericRelation(opr, n, ds) ==
    CASE opr = <<">">> -> IntAbove(n, ds)
      [] opr = <<"<">> -> IntBelow(n, ds)
      [] opr = <<">", "=">> -> ~IntBelow(n, ds)
      [] opr = <<"<", "=">> -> ~IntAbove(n, ds)

\* C13 (numeric-first comparison): for a stored integer and an integer
\* literal, each of >, <, >=, <= takes the row exactly when the numeric
\* relation holds between the two numbers.
C13_NumericFirst ==
    (/\ Evaluated
     /\ evaluated.value.t = "int"
     /\ evaluated.condition.op \in {<<">">>, <<"<">>, <<">", "=">>, <<"<", "=">>}
     /\ AllDigits(evaluated.condition.value))
        => (evaluated.matches
              <=> NumericRelation(evaluated.condition.op, evaluated.value.n,
                                  evaluated.condition.value))

\* C14 (operator normalization): a condition written with '==' is parsed to
\* the operator '=' and takes exactly the rows the same condition written
\* with '=' takes, on the SELECT path and on the UPDATE/DELETE path alike.
C14_EqEqNormalized ==
    (evaluated.stage \in {"select", "mutating"} /\ evaluated.text # ReplaceEqEq(evaluated.text))
        => /\ evaluated.condition.ok
           /\ evaluated.condition.op = <<"=">>
           /\ evaluated.matches
                <=> Matches(evaluated.value, parseCondition(ReplaceEqEq(evaluated.text)))

\* the text is a numeral: digits, or digits '.' digits
IsNumeral(str) ==
    \/ AllDigits(str)
    \/ \E k \in 2..(Len(str) - 1) :
          str[k] = "." /\ AllDigits(Take(str, k - 1)) /\ AllDigits(Drop(str, k))

\* the two numerals denote the same number
SameNumber(x, y) == ~DecLess(stod(x), stod(y)) /\ ~DecLess(stod(y), stod(x))

\* C25 (uniform comparison rule): '=' and '!=' compare numbers as numbers: a
\* stored number and a numeric literal that are numerically equal (stored 10,
\* literal 10.0) satisfy '=' and do not satisfy '!='.
C25_UniformComparison ==
    (/\ Evaluated
     /\ evaluated.value.t \in {"int", "float"}
     /\ evaluated.condition.op \in {<<"=">>, <<"!", "=">>}
     /\ IsNumeral(evaluated.condition.value))
        => (evaluated.matches
              <=> (evaluated.condition.op = <<"=">>
                     <=> SameNumber(fieldValueOf(evaluated.value), evaluated.condition.value)))

\* the stored value satisfies the condition's literal under operator o
Holds(value, condition, o) == Matches(value, [condition EXCEPT !.op = o])

\* exactly one of the three statements is true
ExactlyOne(p, q, r) == (p /\ ~q /\ ~r) \/ (~p /\ q /\ ~r) \/ (~p /\ ~q /\ r)

\* the comparison operators of the condition grammar
OrderOperators == {<<"=">>, <<"!", "=">>, <<">">>, <<"<">>, <<">", "=">>, <<"<", "=">>}

\* C35 (comparison totality): for a stored value v and a condition literal l,
\* v >= l is the negation of v < l, v <= l is the negation of v > l, and
\* exactly one of v < l, v = l, v > l holds.
C35_ComparisonTotality ==
    (Evaluated /\ evaluated.condition.ok /\ evaluated.condition.op \in OrderOperators) =>
        /\ Holds(evaluated.value, evaluated.condition, <<">", "=">>)
             <=> ~Holds(evaluated.value, evaluated.condition, <<"<">>)
        /\ Holds(evaluated.value, evaluated.condition, <<"<", "=">>)
             <=> ~Holds(evaluated.value, evaluated.condition, <<">">>)
        /\ ExactlyOne(Holds(evaluated.value, evaluated.condition, <<"<">>),
                      Holds(evaluated.value, evaluated.condition, <<"=">>),
                      Holds(evaluated.value, evaluated.condition, <<">">>))

(***************************************************************************)
(* Two writers, stated over RaceSpec.                                      *)
(***************************************************************************)
\* the temporary files two Deletes, or two Updates, have staged for one
\* column file bear the same name
SameTempNames ==
    (op.kind # "insert" /\ racers.op.kind # "insert") =>
        \A i \in DOMAIN op.staged, j \in DOMAIN racers.op.staged :
            op.staged[i][2] = racers.op.staged[j][2] => op.staged[i][1] = racers.op.staged[j][1]

Spared(fs, c1, c2) ==
    Cardinality({i \in DOMAIN ColumnData(fs, HomeRoot, c1.column) \cap
                        DOMAIN ColumnData(fs, HomeRoot, c2.column) :
                    /\ ~Matches(ColumnData(fs, HomeRoot, c1.column)[i], c1)
                    /\ ~Matches(ColumnData(fs, HomeRoot, c2.column)[i], c2)})

C29_ExitLineQuits ==
    (console.lines > 0 /\ console.query = console.hint) => console.pc = "exited"

\* the statements that read or write a table of the current database
OnCurrentDatabase == {"insert", "select", "update", "delete", "createTable"}

\* C30 (current-database consistency): once a CHANGE DATABASE d or CREATE
\* DATABASE d has succeeded in the session, every later INSERT, SELECT,
\* UPDATE, DELETE and CREATE TABLE works on database d.
C30_CurrentDatabase ==
    (console.selected # NoDb /\ console.stmt \in OnCurrentDatabase) =>
        console.on.database = console.selected

(***************************************************************************)
(* The schema's constraints, stated over ConstraintSpec.                   *)
(***************************************************************************)
\* the root a mutating statement works under
RootOf(stmt) == IF stmt = "update" THEN CwdRoot ELSE HomeRoot

\* an Insert, Update or Delete has returned without an error
Succeeded == last.stmt \in {"insert", "update", "delete"} /\ last.status = "ok"

\* no column declared notNull holds a null entry
NoNullWhereNotNull(fs, root) ==
    \A k \in DOMAIN TableInfo :
        TableInfo[k].notNull =>
            \A i \in DOMAIN ColumnData(fs, root, TableInfo[k].name) :
                ColumnData(fs, root, TableInfo[k].name)[i] # JNull

\* the statement would leave a null in the notNull column: an INSERT that
\* omits the column or gives it the literal NULL, an UPDATE that sets it NULL
AsksForNull(qi, stmt, col) ==
    \/ /\ stmt = "insert"
       /\ \A i \in DOMAIN parsedQueries.insert[qi].columns :
             (parsedQueries.insert[qi].columns[i] = col /\ i \in DOMAIN parsedQueries.insert[qi].values)
                => parsedQueries.insert[qi].values[i] = JNull
    \/ /\ stmt = "update"
       /\ col \in DOMAIN parsedQueries.update[qi].updates
       /\ parsedQueries.update[qi].updates[col].v = JNull

\* C32 (NOT NULL invariant): a successful Insert, Update or Delete on a table
\* without a null in its notNull columns leaves it without one, and an
\* Insert that omits such a column or gives it NULL, and an UPDATE that sets
\* it NULL, are rejected by a constraint check.
C32_NotNullInvariant ==
    /\ (Succeeded /\ NoNullWhereNotNull(pre, RootOf(last.stmt)))
          => NoNullWhereNotNull(files, RootOf(last.stmt))
    /\ \A k \in DOMAIN TableInfo :
          (TableInfo[k].notNull /\ last.stmt \in {"insert", "update"}
             /\ AsksForNull(last.q, last.stmt, TableInfo[k].name) /\ Returned)
                => (last.status = "error" /\ last.err \in InsertConstraintErrors)

\* no column declared isUnique holds the same entry twice (two nulls count)
NoDuplicateWhereUnique(fs, root) ==
    \A k \in DOMAIN TableInfo :
        TableInfo[k].isUnique =>
            \A i, j \in DOMAIN ColumnData(fs, root, TableInfo[k].name) :
                i # j => ColumnData(fs, root, TableInfo[k].name)[i]
                           # ColumnData(fs, root, TableInfo[k].name)[j]

\* C33 (UNIQUE invariant): a successful Insert, Update or Delete on a table
\* whose unique columns hold no entry twice leaves them so.
C33_UniqueInvariant ==
    (Succeeded /\ NoDuplicateWhereUnique(pre, RootOf(last.stmt)))
        => NoDuplicateWhereUnique(files, RootOf(last.stmt))

\* every non-null entry of a column belongs to the column's declared family
EntriesOfDeclaredType(fs, root) ==
    \A k \in DOMAIN TableInfo :
        \A i \in DOMAIN ColumnData(fs, root, TableInfo[k].name) :
            \/ ColumnData(fs, root, TableInfo[k].name)[i] = JNull
            \/ FamilyAccepts(TableInfo[k].type, ColumnData(fs, root, TableInfo[k].name)[i])

\* C34 (type invariant): a successful Insert or Update on a table whose
\* entries have their columns' types leaves every non-null entry in its
\* column's declared type family.
C34_TypeInvariant ==
    (last.stmt \in {"insert", "update"} /\ last.status = "ok"
       /\ EntriesOfDeclaredType(pre, RootOf(last.stmt)))
        => EntriesOfDeclaredType(files, RootOf(last.stmt))

(***************************************************************************)
(* Table creation, stated over CreateSpec.                                 *)
(***************************************************************************)
\* C36 (creation keeps columns aligned): after CREATE TABLE has succeeded,
\* every column of the table's schema has a column file and all of these
\* files have the same length.
C36_CreateAligned ==
    (last.stmt = "createTable" /\ last.status = "ok") =>
        \A i, j \in DOMAIN tableInfo[HomeRoot] :
            /\ Exists(files, FinalPath(HomeRoot, tableInfo[HomeRoot][i].name))
            /\ Len(ColumnData(files, HomeRoot, tableInfo[HomeRoot][i].name))
                 = Len(ColumnData(files, HomeRoot, tableInfo[HomeRoot][j].name))

(***************************************************************************)
(* Repetition, stated over RepeatSpec.                                     *)
(***************************************************************************)
\* the session is in, or has finished, a later execution of its UPDATE, and
\* every execution before it succeeded
UpdateAgain == stmts >= 2 /\ last.stmt = "update" /\ allOk

\* C37 (Update is idempotent): when an UPDATE statement that has succeeded is
\* executed again with nothing in between, the second execution stages no
\* file and every column file keeps the content the first execution left.
C37_UpdateIdempotent ==
    UpdateAgain =>
        /\ op.staged = <<>> /\ last.staged = <<>>
        /\ files = pre
        /\ last.status \in {"running", "ok"}

\* UPDATE t SET b = 5 WHERE a = 'x' has run twice on a table where the first
\* execution changed a row: the second one returned and changed nothing
C37_Witness ==
    /\ UpdateAgain /\ last.status = "ok" /\ last.q = 10 /\ stmts = 2
    /\ ColumnData(files, CwdRoot, ColA) = <<JStr(<<"x">>)>>
    /\ ColumnData(files, CwdRoot, ColB) = <<JInt(5)>>
    /\ ColumnData(files, HomeRoot, ColB) = <<JInt(1)>>

(***************************************************************************)
(* The console's termination, stated over ConsoleLiveSpec.                 *)
(***************************************************************************)
\* C38 (console termination): once the input stream of the interactive
\* console has reached its end, the interactive loop eventually exits.
C38_ConsoleTerminates == console.eof ~> (console.pc = "exited")

(***************************************************************************)
(* Errors within a session, stated over Spec.                              *)
(***************************************************************************)
\* what a statement of the session reads of the table: its column files
\* (select.cpp:60-75, insert.cpp:105-160, updateRow.cpp:96-146,
\* deleteRow.cpp:78-135); every temporary file is written before it is renamed
SeenByStatements(fs) == [p \in FinalPaths |-> fs[p]]

\* C39 (errors are not fatal to a session): when a statement has failed with
\* an error the session is ready for the next statement, and that statement
\* finds every column file as the failed statement found it, so that its
\* result is the one it has without the failed statement.
C39_ErrorsLeaveNoState ==
    last.status = "error" =>
        (op.pc = "idle" => SeenByStatements(files) = SeenByStatements(pre))

=============================================================================
